---- MODULE Spec2Model ----
(***************************************************************************)
(* AI code review action (clearideas/ai-code-review-github-action).        *)
(*                                                                         *)
(* The repository holds three revisions of review.js: the current one      *)
(* (plain-text responses parsed by extractIssuesFromText), and two earlier *)
(* ones (a forgiving JSON schema backed by attemptRobustParsing, and a     *)
(* strict JSON schema).  The pipeline modelled is the current revision's.  *)
(*                                                                         *)
(* Texts are sequences of tokens.  A token stands for a run of characters  *)
(* that the program's regular expressions can only match as a whole; the   *)
(* character classes each token belongs to are given by the predicates     *)
(* below.                                                                  *)
(***************************************************************************)
EXTENDS Integers, Sequences, FiniteSets, TLC

VARIABLES
    FAIL_ON_SEVERITY, \* the fail_on_severity input (shared workflow configuration)
    comments,         \* the pull request's issue comments, oldest first
    pc,               \* per run: the await the run is suspended at
    failOn,           \* per run: the blocking-severity set
    text,             \* per run: the model's raw response
    parsed,           \* per run: the Review
    botComment,       \* per run: id of the comment found by listComments (0: none)
    exitCode,         \* per run: the process exit code (-1: still running)
    threw,            \* per run: the stage whose error ended the run ("none")
    wrote,            \* per run: the comment write the run performed
    probe,            \* function checks: the input
    applied,          \* function checks: whether the function has been applied
    outReview,        \* function checks: a Review result
    outSet,           \* function checks: a set result
    outBool,          \* function checks: a boolean result
    outText,          \* function checks: a text result
    outFiles,         \* function checks: a list of files
    lastIndex         \* the loop of extractIssuesFromText: the index exec starts
                      \* at, counted from 1

vars == <<FAIL_ON_SEVERITY, comments, pc, failOn, text, parsed, botComment,
          exitCode, threw, wrote, probe, applied, outReview, outSet, outBool,
          outText, outFiles, lastIndex>>

pipelineVars == <<FAIL_ON_SEVERITY, comments, pc, failOn, text, parsed,
                  botComment, exitCode, threw, wrote>>

fnVars == <<probe, applied, outReview, outSet, outBool, outText, outFiles, lastIndex>>

(***************************************************************************)
(* Bounds                                                                  *)
(***************************************************************************)
NumRuns == 2

MaxLines == 3

MaxIssues == 2

MaxCfgLen == 2

MaxToks == 3

MaxDepth == 2

MaxFiles == 2

MaxChunks == 3

MaxPatches == 5

Runs == 1..NumRuns

(***************************************************************************)
(* Closed enumerations                                                     *)
(***************************************************************************)
validSeverities == <<"info", "low", "medium", "high", "critical", "security">>

Severities == {validSeverities[i] : i \in DOMAIN validSeverities}

Risks == {"low", "medium", "high", "critical"}

(***************************************************************************)
(* Sequence helpers                                                        *)
(***************************************************************************)
Range(s) == {s[i] : i \in DOMAIN s}

Sub(s, a, b) == IF a > b THEN <<>> ELSE SubSeq(s, a, b)

\* Array.prototype.filter with the predicate "is (not) a member of S".
RECURSIVE filterIn(_, _, _)
filterIn(s, S, member) ==
    IF s = <<>> THEN <<>>
    ELSE (IF (Head(s) \in S) = member THEN <<Head(s)>> ELSE <<>>)
         \o filterIn(Tail(s), S, member)

SeqsUpTo(S, n) == UNION {[1..k -> S] : k \in 0..n}

(***************************************************************************)
(* Startup: the blocking-severity set                                      *)
(***************************************************************************)
defaultFailOn == {"high", "critical", "security"}

\* A fail_on_severity input: text that JSON.parse rejects, a JSON value that is
\* not an array, or a JSON array of elements.
CfgElems == Severities \cup {"HIGH", "bogus"}

NotJson == [kind |-> "notjson", elems |-> <<>>]

NotArray == [kind |-> "notarray", elems |-> <<>>]

JsonArray(es) == [kind |-> "array", elems |-> es]

failOnMissesInvalid(cfg) ==
    IF cfg.kind = "notjson" THEN defaultFailOn
    ELSE IF cfg.kind # "array" THEN defaultFailOn
    ELSE Range(filterIn(cfg.elems, Severities, TRUE))

ParseFailOn(cfg) ==
    IF cfg.kind = "notjson" THEN defaultFailOn                 \* JSON.parse throws
    ELSE IF cfg.kind # "array" THEN defaultFailOn              \* !Array.isArray
    ELSE LET invalid == filterIn(cfg.elems, Severities, FALSE)
         IN  IF Len(invalid) > 0 THEN defaultFailOn
             ELSE Range(cfg.elems)                             \* new Set(parsed)

(***************************************************************************)
(* Gate                                                                    *)
(***************************************************************************)
\* issues.some(i => failOn.has(i.severity)): left to right, stops at the first hit.
RECURSIVE someBlocking(_, _)
someBlocking(issues, blocking) ==
    IF issues = <<>> THEN FALSE
    ELSE IF Head(issues).severity \in blocking THEN TRUE
    ELSE someBlocking(Tail(issues), blocking)

shouldFailFirstOnly(review, blocking) ==
    review.issues # <<>> /\ review.issues[1].severity \in blocking

shouldFail(review, blocking) ==
    someBlocking(review.issues, blocking)

(***************************************************************************)
(* Text                                                                    *)
(*                                                                         *)
(* A token is a record [k, v]: k is its kind, v the characters it stands   *)
(* for.  Kinds: "nl" (a newline), "sp" (blanks), "word" (letters),         *)
(* "marker" ("[" v "]" with v a severity name in any letter case), "risk"  *)
(* ("OVERALL RISK: " v), "dash" ("-"), "path" (a/b.js), "colon" (":"),     *)
(* "num" (digits), "star" ("**"), "us" ("_"), "good" (a phrase such as     *)
(* "looks good"), "big" (a very long run of letters).                      *)
(***************************************************************************)
Tok(k, v) == [k |-> k, v |-> v]

NL == Tok("nl", "\n")

SP == Tok("sp", " ")

DASH == Tok("dash", "-")

COLON == Tok("colon", ":")

W(v) == Tok("word", v)

M(v) == Tok("marker", v)

RISK(v) == Tok("risk", v)

NUM(v) == Tok("num", v)

asWritten(v) == v

\* String.prototype.toLowerCase on the names the patterns can capture.
toLowerCase(v) ==
    CASE v \in {"HIGH", "High", "high"} -> "high"
      [] v \in {"CRITICAL", "Critical", "critical"} -> "critical"
      [] v \in {"SECURITY", "Security", "security"} -> "security"
      [] v \in {"MEDIUM", "Medium", "medium"} -> "medium"
      [] v \in {"LOW", "Low", "low"} -> "low"
      [] v \in {"INFO", "Info", "info"} -> "info"
      [] OTHER -> v

IsNl(t) == t.k = "nl"

\* \s
IsWs(t) == t.k \in {"nl", "sp"}

\* /\[(SECURITY|CRITICAL|HIGH|MEDIUM|LOW|INFO)\]/i
IsMarker(t) == t.k = "marker"

\* every character of the token is in [^\s\n:/], or the token is a well-formed
\* a/b path
IsPathTok(t) ==
    t.k \in {"word", "marker", "dash", "path", "num", "star", "us", "big", "tick"}

\* String.prototype.substring(a, b) with 0-based offsets
substring(T, a, b) == Sub(T, a + 1, b)

RECURSIVE trimStart(_)
trimStart(T) == IF T # <<>> /\ IsWs(Head(T)) THEN trimStart(Tail(T)) ELSE T

RECURSIVE trimEnd(_)
trimEnd(T) ==
    IF T # <<>> /\ IsWs(T[Len(T)]) THEN trimEnd(Sub(T, 1, Len(T) - 1)) ELSE T

trim(T) == trimEnd(trimStart(T))

\* String.prototype.search(marker pattern): 0-based offset of the first marker, -1
\* when there is none
RECURSIVE searchFrom(_, _)
searchFrom(T, i) ==
    IF i > Len(T) THEN -1
    ELSE IF IsMarker(T[i]) THEN i - 1
    ELSE searchFrom(T, i + 1)

search(T) == searchFrom(T, 1)

\* text.match(/OVERALL\s+RISK:\s*(LOW|MEDIUM|HIGH|CRITICAL)/i): the first risk
\* token's level as written, "" when there is none
RECURSIVE riskMatchFrom(_, _)
riskMatchFrom(T, i) ==
    IF i > Len(T) THEN ""
    ELSE IF T[i].k = "risk" THEN T[i].v
    ELSE riskMatchFrom(T, i + 1)

riskMatch(T) == riskMatchFrom(T, 1)

\* index of the first token at or after i that is not whitespace (Len(T)+1: none)
RECURSIVE skipWs(_, _)
skipWs(T, i) == IF i <= Len(T) /\ IsWs(T[i]) THEN skipWs(T, i + 1) ELSE i

\* summary.replace(/OVERALL\s+RISK:\s*(LOW|MEDIUM|HIGH|CRITICAL)\s*/gi, '')
RECURSIVE removeRisk(_)
removeRisk(T) ==
    IF T = <<>> THEN <<>>
    ELSE IF Head(T).k = "risk" THEN removeRisk(Sub(T, skipWs(T, 2), Len(T)))
    ELSE <<Head(T)>> \o removeRisk(Tail(T))

(***************************************************************************)
(* extractIssuesFromText (current revision)                                *)
(***************************************************************************)
\* A match of issuePattern: end is the index after the match, sev/title/file/line
\* are groups 1-4 as written ("" or <<>>: the group did not take part).
NoMatch == [ok |-> FALSE, end |-> 0, sev |-> "", title |-> <<>>, file |-> <<>>,
            line |-> ""]

\* (?:\n|$) at index p: the index after it, 0 when it does not match
lineEnd(T, p) ==
    IF p = Len(T) + 1 THEN p
    ELSE IF p <= Len(T) /\ IsNl(T[p]) THEN p + 1
    ELSE 0

\* index of the first token at or after i that cannot belong to the file path
RECURSIVE pathEnd(_, _)
pathEnd(T, i) == IF i <= Len(T) /\ IsPathTok(T[i]) THEN pathEnd(T, i + 1) ELSE i

\* (?:\s*-\s*(path)(?::(\d+))?)?(?:\n|$) at index e, the index after the title.
\* The optional group is tried first.
tailMatch(T, e) ==
    LET g1 == skipWs(T, e)
        g2 == skipWs(T, g1 + 1)
        g3 == pathEnd(T, g2)
        hasDash == g1 <= Len(T) /\ T[g1].k = "dash" /\ g3 > g2
        hasLine == /\ hasDash
                   /\ g3 + 1 <= Len(T)
                   /\ T[g3].k = "colon"
                   /\ T[g3 + 1].k = "num"
                   /\ lineEnd(T, g3 + 2) # 0
    IN  IF hasLine
        THEN [ok |-> TRUE, end |-> lineEnd(T, g3 + 2), sev |-> "", title |-> <<>>,
              file |-> Sub(T, g2, g3 - 1), line |-> T[g3 + 1].v]
        ELSE IF hasDash /\ lineEnd(T, g3) # 0
        THEN [ok |-> TRUE, end |-> lineEnd(T, g3), sev |-> "", title |-> <<>>,
              file |-> Sub(T, g2, g3 - 1), line |-> ""]
        ELSE IF lineEnd(T, e) # 0
        THEN [ok |-> TRUE, end |-> lineEnd(T, e), sev |-> "", title |-> <<>>,
              file |-> <<>>, line |-> ""]
        ELSE NoMatch

\* alternation and backtracking: the first alternative that matches
orElse(m, alt) == IF m.ok THEN m ELSE alt

\* ([^\n]+?) from index k, lazily: the shortest title T[k..e-1] after which the
\* rest of the pattern matches
RECURSIVE titleScan(_, _, _)
titleScan(T, k, e) ==
    orElse([tailMatch(T, e) EXCEPT !.title = Sub(T, k, e - 1)],
           IF e <= Len(T) /\ ~IsNl(T[e]) THEN titleScan(T, k, e + 1) ELSE NoMatch)

\* \s* from index j, greedily: the title starts at k, the longest run of
\* whitespace first, then shorter ones
RECURSIVE startScan(_, _, _)
startScan(T, j, k) ==
    IF k < j THEN NoMatch
    ELSE orElse(IF k <= Len(T) /\ ~IsNl(T[k]) THEN titleScan(T, k, k + 1) ELSE NoMatch,
                startScan(T, j, k - 1))

\* \*{0,2} after the bracket at index i, greedily: n star tokens first, then fewer
RECURSIVE starScan(_, _, _)
starScan(T, i, n) ==
    IF n < 0 THEN NoMatch
    ELSE orElse(IF n = 0 \/ (i + 1 <= Len(T) /\ T[i + 1].k = "star")
                THEN startScan(T, i + 1 + n, skipWs(T, i + 1 + n))
                ELSE NoMatch,
                starScan(T, i, n - 1))

\* issuePattern at the marker at index i
issuePatternAt(T, i) == starScan(T, i, 1)

\* issuePattern.exec(text) with lastIndex = from - 1: the leftmost match
RECURSIVE exec(_, _)
exec(T, from) ==
    IF from > Len(T) THEN NoMatch
    ELSE orElse(IF IsMarker(T[from])
                THEN [issuePatternAt(T, from) EXCEPT !.sev = T[from].v]
                ELSE NoMatch,
                exec(T, from + 1))

\* parseInt(digits, 10)
parseInt(v) ==
    CASE v = "0" -> 0
      [] v = "20" -> 20
      [] v = "100" -> 100
      [] v = "180000" -> 180000
      [] v = "7" -> 7
      [] v = "12" -> 12
      [] OTHER -> 1

\* .replace(/\*\*/g, '').replace(/_/g, '')
RECURSIVE removeEmphasis(_)
removeEmphasis(T) ==
    IF T = <<>> THEN <<>>
    ELSE (IF Head(T).k \in {"star", "us"} THEN <<>> ELSE <<Head(T)>>)
         \o removeEmphasis(Tail(T))

IsSuggestionWord(t) == t.k = "word" /\ t.v \in {"Suggestion", "suggestion"}

\* (.+?)(?=\n\n|\n\[|$) from index k: the index of the capture's last token
RECURSIVE captureEnd(_, _)
captureEnd(B, e) ==
    IF e >= Len(B) THEN Len(B)
    ELSE IF IsNl(B[e + 1]) /\ e + 2 <= Len(B) /\ (IsNl(B[e + 2]) \/ IsMarker(B[e + 2]))
    THEN e
    ELSE captureEnd(B, e + 1)

\* issueBody.match(/Suggestion:\s*(.+?)(?=\n\n|\n\[|$)/is): index is the match's
\* 1-based start (0: no match), capture is group 1.  The body is trimmed, so the
\* whitespace after the colon is followed by a token the capture can start with.
RECURSIVE suggestionMatchFrom(_, _)
suggestionMatchFrom(B, i) ==
    IF i + 1 > Len(B) THEN [index |-> 0, capture |-> <<>>]
    ELSE LET k == skipWs(B, i + 2)
         IN  IF IsSuggestionWord(B[i]) /\ B[i + 1].k = "colon" /\ k <= Len(B)
             THEN [index |-> i, capture |-> Sub(B, k, captureEnd(B, k))]
             ELSE suggestionMatchFrom(B, i + 1)

NullLine == -1

unknownFile == <<W("unknown")>>

defaultSummary == <<W("AI review completed")>>

defaultDetail == <<W("Issue detected in code review requiring attention.")>>

\* The finding pushed for one match (the body of the while loop).  suggestion
\* <<>> and tags {} stand for null.
issueOf(T, m) ==
    LET issueStart == m.end - 1
        nextIssueMatch == search(substring(T, issueStart, Len(T)))
        issueEnd == IF nextIssueMatch > 0 THEN issueStart + nextIssueMatch ELSE Len(T)
        issueBody == trim(substring(T, issueStart, issueEnd))
        sm == suggestionMatchFrom(issueBody, 1)
        detail == IF sm.index # 0 THEN trim(Sub(issueBody, 1, sm.index - 1))
                  ELSE issueBody
    IN  [file |-> IF m.file # <<>> THEN m.file ELSE unknownFile,
         line |-> IF m.line # "" THEN parseInt(m.line) ELSE NullLine,
         severity |-> toLowerCase(m.sev),
         title |-> trim(removeEmphasis(trim(m.title))),
         detail |-> IF detail # <<>> THEN detail ELSE defaultDetail,
         suggestion |-> IF sm.index # 0 THEN trim(sm.capture) ELSE <<>>,
         tags |-> {}]

\* while ((match = issuePattern.exec(text)) !== null) { ... issues.push(...) }
RECURSIVE matchLoop(_, _)
RECURSIVE push(_, _)
push(T, m) == IF ~m.ok THEN <<>> ELSE <<issueOf(T, m)>> \o matchLoop(T, m.end)

matchLoop(T, from) == push(T, exec(T, from))

RECURSIVE hasSeverity(_, _)
hasSeverity(issues, S) ==
    IF issues = <<>> THEN FALSE
    ELSE IF Head(issues).severity \in S THEN TRUE
    ELSE hasSeverity(Tail(issues), S)

\* the fallback that rates critical and security findings as high
riskStopsAtHigh(issues, overall_risk) ==
    IF hasSeverity(issues, {"critical", "security", "high"}) THEN "high"
    ELSE IF hasSeverity(issues, {"medium"}) THEN "medium"
    ELSE overall_risk

\* if (!riskMatch && issues.length > 0) { ... }
riskFromIssues(issues, overall_risk) ==
    IF hasSeverity(issues, {"critical", "security"}) THEN "critical"
    ELSE IF hasSeverity(issues, {"high"}) THEN "high"
    ELSE IF hasSeverity(issues, {"medium"}) THEN "medium"
    ELSE overall_risk

\* return { summary, overall_risk, issues } after the fallback on the findings
reviewOf(summary, overall_risk, riskMatched, issues) ==
    [summary |-> summary,
     overall_risk |-> IF ~riskMatched /\ Len(issues) > 0
                      THEN riskFromIssues(issues, overall_risk) ELSE overall_risk,
     issues |-> issues]

extractIssuesFromText(T) ==
    LET rm == riskMatch(T)
        firstIssueMatch == search(T)
        summary0 == IF firstIssueMatch > 0 THEN trim(substring(T, 0, firstIssueMatch))
                    ELSE trim(T)
        summary1 == trim(removeRisk(summary0))
    IN  reviewOf(IF summary1 # <<>> THEN summary1 ELSE defaultSummary,
                 IF rm # "" THEN toLowerCase(rm) ELSE "low",
                 rm # "",
                 matchLoop(T, 1))

(***************************************************************************)
(* Rendering and the comment body                                          *)
(***************************************************************************)
marker == Tok("html", "<!-- ai-code-review-bot -->")

MD(v) == Tok("md", v)

toUpperCase(v) ==
    CASE v = "low" -> "LOW"
      [] v = "medium" -> "MEDIUM"
      [] v = "high" -> "HIGH"
      [] v = "critical" -> "CRITICAL"
      [] v = "security" -> "SECURITY"
      [] v = "info" -> "INFO"
      [] OTHER -> v

\* the token holds a character that escapeMarkdown's class lists
HasSpecial(t) ==
    \/ t.k \in {"marker", "dash", "star", "us", "path", "html", "tick"}
    \/ t.k = "word" /\ t.v \in {"AI review completed.", "x.y",
                                "Issue detected in code review requiring attention."}

\* text.replace(<the class>, '\\$&'): a token with such characters becomes an
\* "esc" token, which holds each of them behind a backslash
RECURSIVE escapeMarkdown(_)
escapeMarkdown(T) ==
    IF T = <<>> THEN <<>>
    ELSE (IF HasSpecial(Head(T)) THEN <<Tok("esc", Head(T).v)>> ELSE <<Head(T)>>)
         \o escapeMarkdown(Tail(T))

\* template-literal conversion of a number
String(n) ==
    CASE n = 0 -> "0"
      [] n = 1 -> "1"
      [] n = 2 -> "2"
      [] n = 3 -> "3"
      [] n = 4 -> "4"
      [] n = 5 -> "5"
      [] n = 7 -> "7"
      [] n = 12 -> "12"
      [] OTHER -> "n"

issueLine(i, iss) ==
    <<MD("- **"), NUM(String(i)), MD(". ["), W(toUpperCase(iss.severity)), MD("] ")>>
    \o escapeMarkdown(iss.title)
    \o <<MD("** - "), MD("backtick")>> \o iss.file
    \o (IF iss.line # NullLine /\ iss.line # 0 THEN <<COLON, NUM(String(iss.line))>> ELSE <<>>)
    \o <<MD("backtick"), NL, SP>> \o escapeMarkdown(iss.detail)
    \o (IF iss.suggestion # <<>>
        THEN <<NL, MD("  **Suggestion:** ")>> \o escapeMarkdown(iss.suggestion)
        ELSE <<>>)

RECURSIVE issueLines(_, _)
issueLines(issues, i) ==
    IF i > Len(issues) THEN <<>>
    ELSE <<NL>> \o issueLine(i, issues[i]) \o issueLines(issues, i + 1)

asMarkdown(review) ==
    <<MD("### AI Code Review ("), W(toUpperCase(review.overall_risk)), MD(")"), NL, NL>>
    \o escapeMarkdown(review.summary) \o <<NL, NL>>
    \o (IF Len(review.issues) = 0 THEN <<MD("**No issues found.**")>>
        ELSE <<MD("**Findings ("), NUM(String(Len(review.issues))), MD("):**")>>
             \o issueLines(review.issues, 1))

maxLen == 60000

MarkerLen == 27

BigLen == maxLen

\* the number of characters of the stems and extensions of changed files
strLen(v) ==
    CASE v = "" -> 0
      [] v \in {"x"} -> 1
      [] v \in {"src", "app", "lib", ".ts", ".go", ".js"} -> 3
      [] v \in {".txt"} -> 4
      [] v \in {"notes", ".json"} -> 5
      [] v \in {"vendor", "config"} -> 6
      [] v \in {"Makefile"} -> 8

\* the number of characters of a filename: its segments and the "/" between them
RECURSIVE nameLength(_)
nameLength(filename) ==
    IF filename = <<>> THEN 0
    ELSE strLen(Head(filename).stem) + strLen(Head(filename).ext)
         + (IF Len(filename) > 1 THEN 1 ELSE 0) + nameLength(Tail(filename))

\* the number of characters a token stands for
TokLen(t) ==
    CASE t.k = "html" -> MarkerLen
      [] t.k = "big" -> BigLen
      [] t.k \in {"nl", "sp", "dash", "colon", "us", "tick"} -> 1
      [] t.k = "star" -> 2
      [] t.k = "slash" -> 1
      [] t.k \in {"lines", "cut"} -> t.v
      [] t.k = "filename" -> nameLength(t.v)
      [] t.k = "lit" ->
            (CASE t.v = "--- a/" -> 6
               [] t.v = "+++ b/" -> 6
               [] t.v = "[File too large for review]" -> 27
               [] t.v = "[Additional files truncated for size]" -> 37
               [] t.v = "[...diff truncated for token safety...]" -> 39)
      [] t.k = "gh" -> 3
      [] t.k = "aws" -> 20
      [] t.k = "kw" -> (CASE t.v = "BEGIN" -> 5 [] t.v = "END" -> 3)
      [] t.k = "run" -> (CASE t.v = "4" -> 4 [] t.v = "20" -> 20 [] t.v = "44" -> 44)
      [] t.k = "redacted" ->
            (CASE t.v = "[REDACTED_PEM_BLOCK]" -> 20
               [] t.v = "[REDACTED_AWS_KEY]" -> 18
               [] t.v = "[REDACTED_GITHUB_TOKEN]" -> 23
               [] t.v = "[REDACTED_LONG_STRING]" -> 22)
      [] OTHER -> 4

RECURSIVE length(_)
length(T) == IF T = <<>> THEN 0 ELSE TokLen(Head(T)) + length(Tail(T))

\* text.slice(0, n): the tokens that end within n characters, then a "cut" token
\* for the first n remaining characters of the token that n cuts
RECURSIVE slice(_, _)
slice(T, n) ==
    IF T = <<>> \/ n <= 0 THEN <<>>
    ELSE IF TokLen(Head(T)) <= n THEN <<Head(T)>> \o slice(Tail(T), n - TokLen(Head(T)))
    ELSE <<Tok("cut", n)>>

truncateComment(T) ==
    IF length(T) <= maxLen THEN T
    ELSE slice(T, maxLen)
         \o <<NL, NL, MD("[Comment truncated for size. See artifact for full report.]")>>

\* the body with the marker after the rendered Review only
bodyMdMarkerLast(review) == asMarkdown(review) \o <<NL, marker>>

bodyMd(review) == <<marker, NL>> \o asMarkdown(review) \o <<NL, marker>>

\* c.body?.includes(marker)
includesMarker(body) == \E i \in DOMAIN body : body[i] = marker

(***************************************************************************)
(* The pipeline: one run per triggering event of the same pull request.    *)
(* A run is a process of its own; runs share only the pull request's       *)
(* comments.  Each action is one await of main together with the           *)
(* synchronous code that follows it.                                       *)
(***************************************************************************)
NoReview == [summary |-> <<>>, overall_risk |-> "", issues |-> <<>>]

NoWrite == [op |-> "none", id |-> 0]

BIG == Tok("big", "xxxx")

\* the responses the model may give in a run
ResponseTexts ==
    { <<>>, <<SP, NL>>, <<W("Fine")>>, <<BIG>>, <<Tok("lbrace", "{"), W("oops")>>,
      <<M("HIGH"), SP, W("Bug")>>, <<W("Ok"), NL, M("low"), SP, W("Nit")>> }

\* the workflow's fail_on_severity inputs
WorkflowConfigs ==
    { JsonArray(<<"high", "critical", "security">>), JsonArray(<<"low">>), NotJson }

\* comments on the pull request before the first run: none, or one by a person
InitialComments == { <<>>, <<[id |-> 1, body |-> <<W("LGTM")>>]>> }

IdleProbe == [fn |-> "none", text |-> <<>>, cfg |-> NotJson, issues |-> <<>>, set |-> {}]

PipelineInit ==
    /\ FAIL_ON_SEVERITY \in WorkflowConfigs
    /\ comments \in InitialComments
    /\ pc = [r \in Runs |-> "startup"]
    /\ failOn = [r \in Runs |-> {}]
    /\ text = [r \in Runs |-> <<>>]
    /\ parsed = [r \in Runs |-> NoReview]
    /\ botComment = [r \in Runs |-> 0]
    /\ exitCode = [r \in Runs |-> -1]
    /\ threw = [r \in Runs |-> "none"]
    /\ wrote = [r \in Runs |-> NoWrite]
    /\ probe = IdleProbe
    /\ applied = FALSE
    /\ outReview = NoReview
    /\ outSet = {}
    /\ outBool = FALSE
    /\ outText = <<>>
    /\ outFiles = <<>>
    /\ lastIndex = 1

\* catch (err) { console.error(...); process.exit(1) }, and an uncaught error at
\* module level: the process ends with exit code 1
exitOnError == 1

catchWritesComment(r, stage) ==
    /\ pc' = [pc EXCEPT ![r] = "exited"]
    /\ exitCode' = [exitCode EXCEPT ![r] = exitOnError]
    /\ threw' = [threw EXCEPT ![r] = stage]
    /\ comments' = Append(comments, [id |-> Len(comments) + 1, body |-> <<W("failed")>>])
    /\ UNCHANGED wrote

catch(r, stage) ==
    /\ pc' = [pc EXCEPT ![r] = "exited"]
    /\ exitCode' = [exitCode EXCEPT ![r] = exitOnError]
    /\ threw' = [threw EXCEPT ![r] = stage]
    /\ UNCHANGED <<comments, wrote>>

\* module level: the required inputs are checked, failOn is read
Startup(r) ==
    /\ pc[r] = "startup"
    /\ \/ /\ catch(r, "startup")
          /\ UNCHANGED failOn
       \/ /\ failOn' = [failOn EXCEPT ![r] = ParseFailOn(FAIL_ON_SEVERITY)]
          /\ pc' = [pc EXCEPT ![r] = "getPR"]
          /\ UNCHANGED <<exitCode, threw, comments, wrote>>
    /\ UNCHANGED <<FAIL_ON_SEVERITY, text, parsed, botComment>>
    /\ UNCHANGED fnVars

\* await octo.pulls.get
GetPR(r) ==
    /\ pc[r] = "getPR"
    /\ \/ catch(r, "getPR")
       \/ /\ pc' = [pc EXCEPT ![r] = "listFiles"]
          /\ UNCHANGED <<exitCode, threw, comments, wrote>>
    /\ UNCHANGED <<FAIL_ON_SEVERITY, failOn, text, parsed, botComment>>
    /\ UNCHANGED fnVars

\* await octo.paginate(octo.pulls.listFiles), then the diff is assembled
ListFiles(r) ==
    /\ pc[r] = "listFiles"
    /\ \/ catch(r, "listFiles")
       \/ /\ pc' = [pc EXCEPT ![r] = "callModel"]
          /\ UNCHANGED <<exitCode, threw, comments, wrote>>
    /\ UNCHANGED <<FAIL_ON_SEVERITY, failOn, text, parsed, botComment>>
    /\ UNCHANGED fnVars

isEmptyUntrimmed(T) == T = <<>>

\* !text || text.trim() === ''
isEmptyResponse(T) == trim(T) = <<>>

\* main, from the response to the Review: an empty response throws, any other
\* is parsed
interpret(T) ==
    IF isEmptyResponse(T) THEN [threw |-> TRUE, review |-> NoReview]
    ELSE [threw |-> FALSE, review |-> extractIssuesFromText(T)]

\* the rest of CallModel once the response t is interpreted: the throw, or the
\* Review and fs.writeFileSync of the report
afterModel(r, res) ==
    IF res.threw
    THEN /\ catch(r, "empty")
         /\ UNCHANGED parsed
    ELSE /\ parsed' = [parsed EXCEPT ![r] = res.review]
         /\ \/ catch(r, "artifact")
            \/ /\ pc' = [pc EXCEPT ![r] = "listComments"]
               /\ UNCHANGED <<exitCode, threw, comments, wrote>>

\* await openai.responses.create, then: the empty-response check, the parse, and
\* fs.writeFileSync of the report
CallModel(r) ==
    /\ pc[r] = "callModel"
    /\ \/ /\ catch(r, "model")
          /\ UNCHANGED <<text, parsed>>
       \/ \E t \in ResponseTexts :
            /\ text' = [text EXCEPT ![r] = t]
            /\ afterModel(r, interpret(t))
    /\ UNCHANGED <<FAIL_ON_SEVERITY, failOn, botComment>>
    /\ UNCHANGED fnVars

findNothing(cs, i) == 0

\* allComments.find(c => c.body?.includes(marker)): the id of the first such
\* comment, 0 when there is none
RECURSIVE find(_, _)
find(cs, i) ==
    IF i > Len(cs) THEN 0
    ELSE IF includesMarker(cs[i].body) THEN cs[i].id
    ELSE find(cs, i + 1)

\* await octo.paginate(octo.issues.listComments), then allComments.find
ListComments(r) ==
    /\ pc[r] = "listComments"
    /\ \/ /\ catch(r, "listComments")
          /\ UNCHANGED botComment
       \/ /\ botComment' = [botComment EXCEPT ![r] = find(comments, 1)]
          /\ pc' = [pc EXCEPT ![r] = "post"]
          /\ UNCHANGED <<exitCode, threw, comments, wrote>>
    /\ UNCHANGED <<FAIL_ON_SEVERITY, failOn, text, parsed>>
    /\ UNCHANGED fnVars

\* an update that rewrites the body of every comment
updateEveryComment(cs, id, body) == [i \in DOMAIN cs |-> [cs[i] EXCEPT !.body = body]]

\* octo.issues.updateComment({comment_id, body})
updateComment(cs, id, body) ==
    [i \in DOMAIN cs |-> IF cs[i].id = id THEN [cs[i] EXCEPT !.body = body] ELSE cs[i]]

\* octo.issues.createComment({body}): the new comment's id is fresh
createComment(cs, body) == Append(cs, [id |-> Len(cs) + 1, body |-> body])

gateNeverFails(review, blocking) == 0

\* step 5: shouldFail ? process.exit(1) : the process ends normally
gateExit(review, blocking) == IF shouldFail(review, blocking) THEN 1 ELSE 0

\* the comment write with the body rendered: update of the comment found, or create
write(r, body) ==
    IF botComment[r] # 0
    THEN /\ comments' = updateComment(comments, botComment[r], body)
         /\ wrote' = [wrote EXCEPT ![r] = [op |-> "update", id |-> botComment[r]]]
    ELSE /\ comments' = createComment(comments, body)
         /\ wrote' = [wrote EXCEPT ![r] = [op |-> "create", id |-> Len(comments) + 1]]

\* await updateComment / createComment, then the gate
Post(r) ==
    /\ pc[r] = "post"
    /\ \/ catch(r, "post")
       \/ /\ write(r, truncateComment(bodyMd(parsed[r])))
          /\ pc' = [pc EXCEPT ![r] = "exited"]
          /\ exitCode' = [exitCode EXCEPT ![r] = gateExit(parsed[r], failOn[r])]
          /\ UNCHANGED threw
    /\ UNCHANGED <<FAIL_ON_SEVERITY, failOn, text, parsed, botComment>>
    /\ UNCHANGED fnVars

Step(r) ==
    \/ Startup(r)
    \/ GetPR(r)
    \/ ListFiles(r)
    \/ CallModel(r)
    \/ ListComments(r)
    \/ Post(r)

\* repeated triggering events: the runs' awaits interleave freely
Next == \E r \in Runs : Step(r)

Spec == PipelineInit /\ [][Next]_vars

\* the runs one after the other: a run starts when the runs before it have ended
NextSeq == \E r \in Runs : (\A q \in 1..(r - 1) : pc[q] = "exited") /\ Step(r)

SpecSeq == PipelineInit /\ [][NextSeq]_vars

(***************************************************************************)
(* attemptRobustParsing (earlier revision) and the extractIssuesFromText   *)
(* of that revision.  Its texts are made of: "{" and "}" alone, a balanced *)
(* JSON object written without whitespace ("json", v names the object), a  *)
(* word of letters, a phrase ("good"), a bracketed severity ("marker"),    *)
(* a blank and a newline.  None of these holds "-" or "/", and only an     *)
(* object holds ":".                                                       *)
(***************************************************************************)
LB == Tok("lbrace", "{")

RB == Tok("rbrace", "}")

OBJ(v) == Tok("json", v)

\* a member the object does not have
undefined == "undefined"

\* a member that is null
null == "null"

\* a tags member: an array of strings, null, or absent
tagsOf(kind, items) == [kind |-> kind, items |-> items]

\* an element of issues: null (nul), or an object; a member is a string,
\* undefined or null, and line is a number written in digits, undefined, null
\* or a string that is no digit
issueObject(file, line, severity, title, detail, suggestion, tags) ==
    [nul |-> FALSE, file |-> file, line |-> line, severity |-> severity,
     title |-> title, detail |-> detail, suggestion |-> suggestion, tags |-> tags]

\* an object of which only title and severity may be present
bare(title, severity) ==
    issueObject(undefined, undefined, severity, title, undefined, undefined,
                tagsOf(undefined, <<>>))

nullElement == [bare(undefined, undefined) EXCEPT !.nul = TRUE]

\* JSON.parse of an object token.  issues: isArray tells whether the member is
\* an array.
\*   "crit":      {"summary":"x","issues":[{"title":"Leak","severity":"critical"}]}
\*   "bogus":     {"overall_risk":"severe","issues":[{"severity":"blocker"}]}
\*   "nullIssue": {"summary":"x","issues":[null]}
\*   "full":      {"summary":"Two findings","overall_risk":"high","issues":[
\*                  {"file":"src/a.js","line":12,"severity":"high","title":"Leak",
\*                   "detail":"Token logged","suggestion":"Mask it","tags":["auth"]},
\*                  {"file":"src/b.js","line":null,"severity":"info","title":"Note",
\*                   "detail":"Unused import","suggestion":null,"tags":null}]}
\*   "clean":     {"summary":"Clean","overall_risk":"low","issues":[]}
\*   "loose":     {"summary":"Typed loosely","overall_risk":"medium","issues":[
\*                  {"file":"","line":"twelve","severity":"high","title":"Leak",
\*                   "detail":"","suggestion":"","tags":null}]}
\*   "mixed":     {"summary":"x","overall_risk":"low","issues":[null,
\*                  {"title":"Leak","severity":"low"},
\*                  {"title":"Note","severity":"info"}]}
\*   otherwise:   {}
JsonValue(v) ==
    CASE v = "crit" ->
            [summary |-> "x", overall_risk |-> undefined, isArray |-> TRUE,
             issues |-> <<bare("Leak", "critical")>>]
      [] v = "bogus" ->
            [summary |-> undefined, overall_risk |-> "severe", isArray |-> TRUE,
             issues |-> <<bare(undefined, "blocker")>>]
      [] v = "nullIssue" ->
            [summary |-> "x", overall_risk |-> undefined, isArray |-> TRUE,
             issues |-> <<nullElement>>]
      [] v = "full" ->
            [summary |-> "Two findings", overall_risk |-> "high", isArray |-> TRUE,
             issues |-> <<issueObject("src/a.js", "12", "high", "Leak", "Token logged",
                                      "Mask it", tagsOf("array", <<"auth">>)),
                          issueObject("src/b.js", null, "info", "Note", "Unused import",
                                      null, tagsOf(null, <<>>))>>]
      [] v = "clean" ->
            [summary |-> "Clean", overall_risk |-> "low", isArray |-> TRUE,
             issues |-> <<>>]
      [] v = "loose" ->
            [summary |-> "Typed loosely", overall_risk |-> "medium", isArray |-> TRUE,
             issues |-> <<issueObject("", "twelve", "high", "Leak", "", "",
                                      tagsOf(null, <<>>))>>]
      [] v = "mixed" ->
            [summary |-> "x", overall_risk |-> "low", isArray |-> TRUE,
             issues |-> <<nullElement, bare("Leak", "low"), bare("Note", "info")>>]
      [] OTHER ->
            [summary |-> undefined, overall_risk |-> undefined, isArray |-> FALSE,
             issues |-> <<>>]

\* index of the first token at or after i that holds "{" (0: none)
RECURSIVE firstOpen(_, _)
firstOpen(T, i) ==
    IF i > Len(T) THEN 0
    ELSE IF T[i].k \in {"lbrace", "json"} THEN i
    ELSE firstOpen(T, i + 1)

\* index of the last token at or before i that holds "}" (0: none)
RECURSIVE lastClose(_, _)
lastClose(T, i) ==
    IF i < 1 THEN 0
    ELSE IF T[i].k \in {"rbrace", "json"} THEN i
    ELSE lastClose(T, i - 1)

\* the span between two indexes found, <<>> when the regex does not match
spanOf(T, a, b) == IF a # 0 /\ b >= a THEN Sub(T, a, b) ELSE <<>>

\* text.match(/\{[\s\S]*\}/): from the first "{" to the last "}"
jsonMatch(T) == spanOf(T, firstOpen(T, 1), lastClose(T, Len(T)))

\* JSON.parse(jsonMatch[0]) succeeds: the span is one object, or "{" and "}"
\* with nothing but whitespace between them
parses(span) ==
    \/ Len(span) = 1
    \/ /\ Len(span) >= 2
       /\ span[1] = LB /\ span[Len(span)] = RB
       /\ \A i \in 2..(Len(span) - 1) : IsWs(span[i])

\* the value JSON.parse returns for a span that parses
parseJSON(span) == JsonValue(IF Len(span) = 1 THEN span[1].v ELSE "")

\* x || d on a string member
orDefault(x, d) == IF x \in {undefined, null, ""} THEN d ELSE x

\* typeof x === 'number' on a line member
IsNumber(x) == x \in {"0", "7", "12"}

\* the callback of jsonResponse.issues.map
lenientIssue(issue) ==
    [file |-> <<W(orDefault(issue.file, "unknown"))>>,
     line |-> IF IsNumber(issue.line) THEN parseInt(issue.line) ELSE NullLine,
     severity |-> IF issue.severity \in Severities THEN issue.severity ELSE "info",
     title |-> <<W(orDefault(issue.title, "Untitled Issue"))>>,
     detail |-> <<W(orDefault(issue.detail, "No details provided"))>>,
     suggestion |-> IF orDefault(issue.suggestion, null) = null THEN <<>>
                    ELSE <<W(issue.suggestion)>>,
     tags |-> IF issue.tags.kind = "array" THEN Range(issue.tags.items) ELSE {}]

\* the object returned in the try block
lenientReview(json) ==
    [summary |-> <<W(orDefault(json.summary, "AI review completed with parsing issues"))>>,
     overall_risk |-> IF json.overall_risk \in Risks THEN json.overall_risk ELSE "low",
     issues |-> IF json.isArray
                THEN [i \in DOMAIN json.issues |-> lenientIssue(json.issues[i])]
                ELSE <<>>]

\* issue.file on a null element raises a TypeError inside the try block
mapThrows(json) == json.isArray /\ \E i \in DOMAIN json.issues : json.issues[i].nul

\* the word of HIGH|CRITICAL|SECURITY, in any letter case, that the token holds
\* ("": none)
hitWord(t) ==
    IF t.k = "marker" /\ toLowerCase(t.v) \in {"high", "critical", "security"} THEN t.v
    ELSE IF t = OBJ("crit") THEN "critical"
    ELSE ""

\* highMatches.length > 0
highMatches(T) == \E i \in DOMAIN T : hitWord(T[i]) # ""

\* mediumMatches.length > 0
mediumMatches(T) == \E i \in DOMAIN T : T[i].k = "marker" /\ toLowerCase(T[i].v) = "medium"

\* the first character of a token
FirstChar(t) ==
    CASE t.k \in {"lbrace", "json"} -> "{"
      [] t.k = "rbrace" -> "}"
      [] t.k = "marker" -> "["
      [] t.k = "good" -> "l"
      [] OTHER -> "h"

\* if (!issues.some(... === issueKey)) issues.push({...}): the key is built from
\* the title as matched, the titles pushed are trimmed
pushUnique(issues, severity, title) ==
    IF \E i \in DOMAIN issues : issues[i].severity = severity /\ issues[i].title = title
    THEN issues
    ELSE Append(issues,
                [file |-> unknownFile, line |-> NullLine, severity |-> severity,
                 title |-> trim(title), detail |-> defaultDetail, suggestion |-> <<>>,
                 tags |-> {"pattern-extracted"}])

\* the text of a bracketed severity whose "[" an earlier match has consumed
cutMarker(t, cut) == IF cut THEN Tok("cutmarker", t.v) ELSE t

\* the loop over the first pattern, from token i (cut: the first character of
\* T[i] belongs to the match before).  The pattern matches at every word of
\* HIGH|CRITICAL|SECURITY: the whitespace after it, then one character as the
\* title; at the end of the text the title is taken from the whitespace or the
\* "]", and trimmed away.  The match, match[0], is the first element of more
\* than three characters and so the title.
RECURSIVE firstPatternLoop(_, _, _, _)
firstPatternLoop(T, i, cut, issues) ==
    IF i > Len(T) THEN issues
    ELSE IF hitWord(T[i]) = "" THEN firstPatternLoop(T, i + 1, FALSE, issues)
    ELSE IF T[i].k = "json"
    THEN firstPatternLoop(T, i + 1, FALSE,
            pushUnique(issues, toLowerCase(hitWord(T[i])), <<Tok("hit", hitWord(T[i]))>>))
    ELSE IF skipWs(T, i + 1) <= Len(T)
    THEN firstPatternLoop(T, skipWs(T, i + 1), TRUE,
            pushUnique(issues, toLowerCase(hitWord(T[i])),
                       <<cutMarker(T[i], cut)>> \o Sub(T, i + 1, skipWs(T, i + 1) - 1)
                       \o <<Tok("char", FirstChar(T[skipWs(T, i + 1)]))>>))
    ELSE firstPatternLoop(T, Len(T) + 1, FALSE,
            pushUnique(issues, toLowerCase(hitWord(T[i])), <<cutMarker(T[i], cut)>>))

\* index of the first newline at or after q (Len(T)+1: none)
RECURSIVE lineStop(_, _)
lineStop(T, q) == IF q <= Len(T) /\ ~IsNl(T[q]) THEN lineStop(T, q + 1) ELSE q

\* index of the first token in q..e-1 that holds ":" (0: none)
RECURSIVE firstColon(_, _, _)
firstColon(T, q, e) ==
    IF q >= e THEN 0
    ELSE IF T[q].k = "json" THEN q
    ELSE firstColon(T, q + 1, e)

\* index of the first token in c..e-1 that holds a word of
\* HIGH|CRITICAL|SECURITY (0: none); c = 0: there is no colon before
RECURSIVE firstHit(_, _, _)
firstHit(T, c, e) ==
    IF c = 0 \/ c >= e THEN 0
    ELSE IF hitWord(T[c]) # "" THEN c
    ELSE firstHit(T, c + 1, e)

\* the part of an object up to the word matched, and the part after it
headOf(t) == IF t.k = "json" THEN Tok("jsonHead", t.v) ELSE t

tailOf(t) == IF t.k = "json" THEN <<Tok("jsonTail", t.v)>> ELSE <<>>

\* the loop over the third pattern, from token q of a line whose text before q,
\* pre, is what an earlier match left of an object.  On a line the pattern
\* matches from where the scan stands to the first word of
\* HIGH|CRITICAL|SECURITY after the line's first colon.
RECURSIVE thirdPatternLoop(_, _, _, _)
RECURSIVE thirdPatternAt(_, _, _, _, _, _)
thirdPatternAt(T, q, pre, issues, e, h) ==
    IF h = 0 THEN thirdPatternLoop(T, e + 1, <<>>, issues)
    ELSE thirdPatternLoop(T, h + 1, tailOf(T[h]),
            pushUnique(issues, toLowerCase(hitWord(T[h])),
                       pre \o Sub(T, q, h - 1) \o <<headOf(T[h])>>))

thirdPatternOn(T, q, pre, issues, e) ==
    thirdPatternAt(T, q, pre, issues, e, firstHit(T, firstColon(T, q, e), e))

thirdPatternLoop(T, q, pre, issues) ==
    IF q > Len(T) THEN issues
    ELSE thirdPatternOn(T, q, pre, issues, lineStop(T, q))

\* the issue pushed when no pattern matched but a severity word was seen
genericIssue(high) ==
    [file |-> unknownFile, line |-> NullLine,
     severity |-> IF high THEN "high" ELSE "medium",
     title |-> <<W("Issues detected in code review")>>,
     detail |-> <<W("The AI review identified potential issues but specific details could not be extracted.")>>,
     suggestion |-> <<W("Please review the raw AI response in artifacts for detailed findings.")>>,
     tags |-> {"pattern-extracted"}]

\* the summary of the earlier extractIssuesFromText
patternSummary(n) ==
    IF n > 0
    THEN <<W("AI review identified"), NUM(String(n)),
           W(IF n > 1 THEN "potential issues requiring attention."
             ELSE "potential issue requiring attention.")>>
    ELSE <<W("AI review completed - no critical issues detected in parseable format.")>>

\* what extractIssuesFromText returns once the pattern loops have run
patternReview(high, medium, issues) ==
    IF issues = <<>> /\ (high \/ medium)
    THEN [summary |-> patternSummary(1),
          overall_risk |-> IF high THEN "high" ELSE "medium",
          issues |-> <<genericIssue(high)>>]
    ELSE [summary |-> patternSummary(Len(issues)),
          overall_risk |-> IF high THEN "high" ELSE IF medium THEN "medium" ELSE "low",
          issues |-> issues]

\* extractIssuesFromText of the earlier revision.  The second pattern needs a
\* dash, which no token holds: its loop pushes nothing.
extractIssuesFromTextByPattern(T) ==
    patternReview(highMatches(T), mediumMatches(T),
                  thirdPatternLoop(T, 1, <<>>, firstPatternLoop(T, 1, FALSE, <<>>)))

\* text.toLowerCase().includes('looks good') || ...includes('no issues')
includesPositive(T) == \E i \in DOMAIN T : T[i].k = "good"

\* Attempt 3: the generic response
genericResponse ==
    [summary |-> <<W("AI review completed but response format was unexpected. Manual review recommended.")>>,
     overall_risk |-> "medium",
     issues |-> <<[file |-> <<W("ai-review-script")>>, line |-> NullLine,
                   severity |-> "medium",
                   title |-> <<W("Response parsing failed")>>,
                   detail |-> <<W("Could not parse AI response using multiple methods. Check artifacts for raw output.")>>,
                   suggestion |-> <<W("Report this issue for debugging.")>>,
                   tags |-> {"parsing-error"}]>>]

\* Attempts 2 and 3
patternOrGeneric(T, patternData) ==
    IF patternData.issues # <<>> \/ includesPositive(T) THEN patternData
    ELSE genericResponse

\* Attempt 1 on the span matched, then the others
robustFrom(T, span) ==
    IF span # <<>> /\ parses(span) /\ ~mapThrows(parseJSON(span))
    THEN lenientReview(parseJSON(span))
    ELSE patternOrGeneric(T, extractIssuesFromTextByPattern(T))

attemptRobustParsing(T) == robustFrom(T, jsonMatch(T))

(***************************************************************************)
(* The same revision's decode of the whole response: JSON.parse, then the  *)
(* forgiving schema, then attemptRobustParsing when either throws.  Every  *)
(* document of the table is an object, which the schema never rejects.     *)
(***************************************************************************)
\* a member that is a string
IsString(x) == x \notin {undefined, null}

\* z.string().catch(d)
stringOr(x, d) == IF IsString(x) THEN x ELSE d

\* z.string().nullable().catch(null); <<>> stands for null
nullableString(x) == IF IsString(x) THEN <<W(x)>> ELSE <<>>

\* z.number().int().catch(0): a null line is not kept
intOrZero(x) == IF IsNumber(x) THEN parseInt(x) ELSE 0

\* z.number().int().nullable().catch(null)
nullableInt(x) == IF IsNumber(x) THEN parseInt(x) ELSE NullLine

\* z.object of Issue on an element that is an object
Issue(issue) ==
    [file |-> <<W(stringOr(issue.file, "unknown"))>>,
     line |-> nullableInt(issue.line),
     severity |-> IF issue.severity \in Severities THEN issue.severity ELSE "info",
     title |-> <<W(stringOr(issue.title, "Untitled Issue"))>>,
     detail |-> <<W(stringOr(issue.detail, "No details provided"))>>,
     suggestion |-> nullableString(issue.suggestion),
     tags |-> IF issue.tags.kind = "array" THEN Range(issue.tags.items) ELSE {}]

\* z.array(Issue).default([]).catch([]): an element that is no object fails
\* the array, which is then caught
issuesOrEmpty(json) ==
    IF json.isArray /\ \A i \in DOMAIN json.issues : ~json.issues[i].nul
    THEN [i \in DOMAIN json.issues |-> Issue(json.issues[i])]
    ELSE <<>>

\* ReviewShape.parse(jsonResponse)
ReviewShape(json) ==
    [summary |-> <<W(stringOr(json.summary, "AI review completed"))>>,
     overall_risk |-> IF json.overall_risk \in Risks THEN json.overall_risk ELSE "low",
     issues |-> issuesOrEmpty(json)]

\* JSON.parse(text) returns: whitespace around one object and nothing else
objectText(s) ==
    \/ Len(s) = 1 /\ s[1].k = "json"
    \/ /\ Len(s) >= 2
       /\ s[1] = LB /\ s[Len(s)] = RB
       /\ \A i \in 2..(Len(s) - 1) : IsWs(s[i])

\* parsed, from the text and the text without the whitespace around it
parsedFrom(T, s) ==
    IF objectText(s) THEN ReviewShape(parseJSON(s)) ELSE attemptRobustParsing(T)

parseResponse(T) == parsedFrom(T, trim(T))

(***************************************************************************)
(* Function checks: an input is drawn, the function is applied to it.      *)
(***************************************************************************)
PATH == Tok("path", "src/a.js")

STAR == Tok("star", "**")

GOOD == Tok("good", "looks good")

\* the lines a response is made of
Lines ==
    { <<>>,
      <<SP>>,
      <<W("Fine")>>,
      <<GOOD>>,
      <<RISK("HIGH")>>,
      <<RISK("Medium"), SP, W("Fine")>>,
      <<M("HIGH"), SP, W("Bug"), SP, DASH, SP, PATH, COLON, NUM("12")>>,
      <<M("Critical"), SP, W("Leak")>>,
      <<M("SECURITY")>>,
      <<M("medium"), SP, W("Slow"), SP, DASH, SP, PATH>>,
      <<M("LOW"), W("Nit")>>,
      <<M("INFO"), SP>>,
      <<STAR, M("HIGH"), STAR, SP, W("Bold")>>,
      <<W("Suggestion"), COLON, SP, W("fix")>> }

RECURSIVE joinLines(_)
joinLines(ls) ==
    IF ls = <<>> THEN <<>>
    ELSE IF Len(ls) = 1 THEN ls[1]
    ELSE ls[1] \o <<NL>> \o joinLines(Tail(ls))

Configs == {NotJson, NotArray} \cup {JsonArray(es) : es \in SeqsUpTo(CfgElems, MaxCfgLen)}

FindingOf(sev) ==
    [file |-> unknownFile, line |-> NullLine, severity |-> sev, title |-> <<W("Bug")>>,
     detail |-> defaultDetail, suggestion |-> <<>>, tags |-> {}]

IssueLists == SeqsUpTo({FindingOf(sev) : sev \in Severities}, MaxIssues)

\* the tokens of the texts handed to attemptRobustParsing
RobustToks ==
    {LB, RB, OBJ("crit"), OBJ("bogus"), OBJ("nullIssue"), W("hello"), GOOD,
     M("HIGH"), M("medium"), SP, NL}

\* A probe hands one function one input: up to MaxLines lines joined by newlines
\* for the extractor and the interpreter, up to MaxToks tokens for the lenient
\* parser, a configuration for the blocking set, findings and a set for the gate.
\* the markers of well-formed responses: [SEVERITY] Title - file:line
MarkerSeverities == {"HIGH", "low", "Security"}

MarkerTitles ==
    { <<W("Bug")>>, <<W("Off"), DASH, W("by"), DASH, W("one")>>,
      <<W("Validate"), SP, W("user"), Tok("us", "_"), W("id")>> }

MarkerLineNumbers == {7, 12}

\* what may follow a marker's line: nothing, or a line of detail
MarkerBodies == { <<>>, <<W("Detail")>> }

Markers ==
    { [severity |-> sev, title |-> title, file |-> <<PATH>>, line |-> n, body |-> body] :
        sev \in MarkerSeverities, title \in MarkerTitles, n \in MarkerLineNumbers,
        body \in MarkerBodies }

\* the lines of a marker: its own, then its body's
linesOf(m) ==
    << <<M(m.severity), SP>> \o m.title \o <<SP, DASH, SP>> \o m.file
       \o <<COLON, NUM(String(m.line))>> >>
    \o (IF m.body = <<>> THEN <<>> ELSE <<m.body>>)

RECURSIVE responseLines(_)
responseLines(ms) ==
    IF ms = <<>> THEN <<>> ELSE linesOf(Head(ms)) \o responseLines(Tail(ms))

\* a backtick
TICK == Tok("tick", "backtick")

\* responses whose free text holds characters of Markdown: a summary line, then
\* markers with such titles, files and bodies
RenderSummaries == { <<W("Summary")>>, <<marker>> }

RenderTitles == { <<W("Bug")>>, <<W("Off"), DASH, W("by"), DASH, W("one")>>,
                  <<W("Use"), SP, TICK, W("x"), TICK>> }

RenderFiles == { <<PATH>>, <<TICK, PATH, TICK>> }

RenderBodies ==
    { <<>>, <<W("x.y")>>, <<W("Detail"), NL, W("Suggestion"), COLON, SP, W("x.y")>> }

RenderMarkers ==
    { [severity |-> "HIGH", title |-> title, file |-> file, line |-> 7, body |-> body] :
        title \in RenderTitles, file \in RenderFiles, body \in RenderBodies }

\* the documents a response may hold, and the prose before one
Documents == {"crit", "bogus", "nullIssue", "full", "clean", "loose", "mixed", "none"}

Prose == {W("hello"), SP, NL}

FnInit ==
    /\ \/ \E k \in 0..MaxIssues : \E ms \in [1..k -> Markers] :
            probe = [IdleProbe EXCEPT !.fn = "markers", !.issues = ms,
                                      !.text = joinLines(<<<<W("Summary")>>>> \o responseLines(ms))]
       \/ \E f \in {"extract", "interpret"}, k \in 0..MaxLines : \E ls \in [1..k -> Lines] :
            probe = [IdleProbe EXCEPT !.fn = f, !.text = joinLines(ls)]
       \/ \E k \in 0..MaxToks : \E t \in [1..k -> RobustToks] :
            probe = [IdleProbe EXCEPT !.fn = "robust", !.text = t]
       \/ \E k \in 0..MaxIssues, summary \in RenderSummaries : \E ms \in [1..k -> RenderMarkers] :
            probe = [IdleProbe EXCEPT !.fn = "render", !.issues = ms,
                                      !.text = joinLines(<<summary>> \o responseLines(ms))]
       \/ \E f \in {"parse", "document"}, k \in 0..(MaxToks - 1), d \in Documents,
             e \in {<<>>, <<NL>>} :
          \E t \in [1..k -> Prose] :
            probe = [IdleProbe EXCEPT !.fn = f, !.text = t \o <<OBJ(d)>> \o e]
       \/ \E c \in Configs :
            probe = [IdleProbe EXCEPT !.fn = "failOn", !.cfg = c]
       \/ \E is \in IssueLists, S \in SUBSET Severities :
            probe = [IdleProbe EXCEPT !.fn = "gate", !.issues = is, !.set = S]
    /\ applied = FALSE
    /\ outReview = NoReview
    /\ outSet = {}
    /\ outBool = FALSE
    /\ outText = <<>>
    /\ outFiles = <<>>
    /\ lastIndex = 1
    /\ FAIL_ON_SEVERITY = NotJson
    /\ comments = <<>>
    /\ pc = [r \in Runs |-> "idle"]
    /\ failOn = [r \in Runs |-> {}]
    /\ text = [r \in Runs |-> <<>>]
    /\ parsed = [r \in Runs |-> NoReview]
    /\ botComment = [r \in Runs |-> 0]
    /\ exitCode = [r \in Runs |-> -1]
    /\ threw = [r \in Runs |-> "none"]
    /\ wrote = [r \in Runs |-> NoWrite]

ApplyExtract ==
    /\ probe.fn \in {"extract", "markers"} /\ ~applied
    /\ applied' = TRUE
    /\ outReview' = extractIssuesFromText(probe.text)
    /\ UNCHANGED <<probe, outSet, outBool, outText, outFiles, lastIndex>>
    /\ UNCHANGED pipelineVars

\* outBool: the run aborted
setInterpreted(res) ==
    /\ outReview' = res.review
    /\ outBool' = res.threw

ApplyInterpret ==
    /\ probe.fn = "interpret" /\ ~applied
    /\ applied' = TRUE
    /\ setInterpreted(interpret(probe.text))
    /\ UNCHANGED <<probe, outSet, outText, outFiles, lastIndex>>
    /\ UNCHANGED pipelineVars

\* the current revision on a response that holds a JSON document
ApplyDocument ==
    /\ probe.fn = "document" /\ ~applied
    /\ applied' = TRUE
    /\ setInterpreted(interpret(probe.text))
    /\ UNCHANGED <<probe, outSet, outText, outFiles, lastIndex>>
    /\ UNCHANGED pipelineVars

ApplyFailOn ==
    /\ probe.fn = "failOn" /\ ~applied
    /\ applied' = TRUE
    /\ outSet' = ParseFailOn(probe.cfg)
    /\ UNCHANGED <<probe, outReview, outBool, outText, outFiles, lastIndex>>
    /\ UNCHANGED pipelineVars

ApplyGate ==
    /\ probe.fn = "gate" /\ ~applied
    /\ applied' = TRUE
    /\ outBool' = shouldFail([NoReview EXCEPT !.issues = probe.issues], probe.set)
    /\ UNCHANGED <<probe, outReview, outSet, outText, outFiles, lastIndex>>
    /\ UNCHANGED pipelineVars

ApplyRobust ==
    /\ probe.fn = "robust" /\ ~applied
    /\ applied' = TRUE
    /\ outReview' = attemptRobustParsing(probe.text)
    /\ UNCHANGED <<probe, outSet, outBool, outText, outFiles, lastIndex>>
    /\ UNCHANGED pipelineVars

\* outText: the Markdown of the Review
setRendered(review) ==
    /\ outReview' = review
    /\ outText' = asMarkdown(review)

ApplyRender ==
    /\ probe.fn = "render" /\ ~applied
    /\ applied' = TRUE
    /\ setRendered(extractIssuesFromText(probe.text))
    /\ UNCHANGED <<probe, outSet, outBool, outFiles, lastIndex>>
    /\ UNCHANGED pipelineVars

ApplyParse ==
    /\ probe.fn = "parse" /\ ~applied
    /\ applied' = TRUE
    /\ outReview' = parseResponse(probe.text)
    /\ UNCHANGED <<probe, outSet, outBool, outText, outFiles, lastIndex>>
    /\ UNCHANGED pipelineVars

FnNext ==
    \/ ApplyExtract \/ ApplyInterpret \/ ApplyDocument \/ ApplyRender
    \/ ApplyRobust \/ ApplyParse \/ ApplyFailOn \/ ApplyGate

SpecFn == FnInit /\ [][FnNext]_vars

(***************************************************************************)
(* The while loop of extractIssuesFromText, one iteration a step: exec     *)
(* starts at lastIndex, a match pushes its finding and sets lastIndex to   *)
(* the end of the match, no match ends the loop and resets lastIndex.      *)
(***************************************************************************)
\* the lines the loop is checked on: markers without a title, at the end of
\* the text, two on a line, between emphasis
LoopLines ==
    { <<>>,
      <<SP>>,
      <<W("Fine")>>,
      <<M("HIGH"), SP, W("Bug"), SP, DASH, SP, PATH, COLON, NUM("12")>>,
      <<M("SECURITY")>>,
      <<M("INFO"), SP>>,
      <<M("LOW"), W("Nit")>>,
      <<M("HIGH"), M("low")>>,
      <<STAR, M("HIGH"), STAR, SP, W("Bold")>> }

\* what one call of issuePattern.exec does to the loop: the match, and the
\* finding its iteration pushes
execResult(T, m) == [match |-> m, push |-> IF m.ok THEN <<issueOf(T, m)>> ELSE <<>>]

\* issuePattern.exec(text) is a function of the text and of lastIndex: its
\* result at every index of the text
execAt(T) == [from \in 1..(Len(T) + 1) |-> execResult(T, exec(T, from))]

loopProbe(T) ==
    [fn |-> "loop", text |-> T, cfg |-> NotJson, issues |-> <<>>, set |-> {},
     exec |-> execAt(T)]

LoopInit ==
    /\ \E k \in 0..MaxLines : \E ls \in [1..k -> LoopLines] :
          probe = loopProbe(joinLines(ls))
    /\ applied = FALSE
    /\ outReview = NoReview
    /\ outSet = {}
    /\ outBool = FALSE
    /\ outText = <<>>
    /\ outFiles = <<>>
    /\ lastIndex = 1
    /\ FAIL_ON_SEVERITY = NotJson
    /\ comments = <<>>
    /\ pc = [r \in Runs |-> "idle"]
    /\ failOn = [r \in Runs |-> {}]
    /\ text = [r \in Runs |-> <<>>]
    /\ parsed = [r \in Runs |-> NoReview]
    /\ botComment = [r \in Runs |-> 0]
    /\ exitCode = [r \in Runs |-> -1]
    /\ threw = [r \in Runs |-> "none"]
    /\ wrote = [r \in Runs |-> NoWrite]

\* a loop that leaves lastIndex where the search started
sameIndex(from, m) == from

\* issuePattern.lastIndex after a match found from index from
nextIndex(from, m) == m.end

\* the body of the loop for the result r of exec: issues.push
iterate(r) ==
    /\ r.match.ok
    /\ outReview' = [outReview EXCEPT !.issues = @ \o r.push]
    /\ lastIndex' = nextIndex(lastIndex, r.match)

\* exec returns a match.  No text gives more findings than it has tokens.
ExecMatch ==
    /\ probe.fn = "loop" /\ ~applied
    /\ Len(outReview.issues) <= Len(probe.text)
    /\ iterate(probe.exec[lastIndex])
    /\ UNCHANGED <<probe, applied, outSet, outBool, outText, outFiles>>
    /\ UNCHANGED pipelineVars

\* exec returns null: the loop ends
ExecNull ==
    /\ probe.fn = "loop" /\ ~applied
    /\ ~probe.exec[lastIndex].match.ok
    /\ applied' = TRUE
    /\ lastIndex' = 1
    /\ UNCHANGED <<probe, outReview, outSet, outBool, outText, outFiles>>
    /\ UNCHANGED pipelineVars

LoopNext == ExecMatch \/ ExecNull

\* the loop is synchronous code: it keeps running while it can
SpecLoop == LoopInit /\ [][LoopNext]_vars /\ WF_vars(LoopNext)

(***************************************************************************)
(* The diff handed to the model: filterSafeFiles, formatUnifiedPatch,      *)
(* sanitizeDiff, truncate.                                                  *)
(*                                                                         *)
(* A filename is the sequence of its segments (the parts between "/").  A  *)
(* segment is a record [stem, ext]: ext is the segment's last "." with what *)
(* follows it ("" when the segment has no "."), stem what precedes it, so  *)
(* ".env" is [stem "", ext ".env"] and ".env.local" is [stem ".env", ext   *)
(* ".local"].                                                              *)
(***************************************************************************)
Seg(stem, ext) == [stem |-> stem, ext |-> ext]

\* what the i flag makes of the letters of a stem or an extension
fold(v) ==
    CASE v = "Secrets" -> "secrets"
      [] v = "SECRET" -> "secret"
      [] v = "Vendor" -> "vendor"
      [] v = "NODE_MODULES" -> "node_modules"
      [] v = "Build" -> "build"
      [] v = ".GIT" -> ".git"
      [] v = ".ENV" -> ".env"
      [] v = ".PEM" -> ".pem"
      [] v = ".Key" -> ".key"
      [] v = ".JS" -> ".js"
      [] v = "ID_RSA" -> "id_rsa"
      [] v = "Dockerfile" -> "dockerfile"
      [] v = "DOCKERFILE" -> "dockerfile"
      [] v = "Makefile" -> "makefile"
      [] OTHER -> v

\* a pattern's view of a string: folded under the i flag, as written without
flagged(p, v) == IF p.i THEN fold(v) ELSE v

\* the stems of the vocabulary that hold the given name somewhere within
holds(stem, name) ==
    \/ stem = name
    \/ name = "id_rsa" /\ stem = "valid_rsa_check"
    \/ name = "id_dsa" /\ stem = "valid_dsa_check"

\* the stems of the vocabulary that end with the given name
endsWith(stem, name) ==
    \/ stem = name
    \/ name = "package-lock" /\ stem = "my-package-lock"

\* lines 77-96.  The shapes: "env" is (^|/)\.env(\..*)?$, "segment" is
\* (^|/)name(/|$), "dir" is (^|/)name/, "suffix" is \.ext$, "within" is an
\* unanchored name, "tail" is an unanchored name followed by \.ext$.
SENSITIVE_FILE_PATTERNS ==
    << [shape |-> "env", i |-> TRUE, stems |-> {".env"}, ext |-> ".env"],
       [shape |-> "segment", i |-> TRUE, stems |-> {"secret", "secrets"}, ext |-> ""],
       [shape |-> "dir", i |-> FALSE, stems |-> {"node_modules"}, ext |-> ""],
       [shape |-> "dir", i |-> FALSE, stems |-> {"dist"}, ext |-> ""],
       [shape |-> "dir", i |-> FALSE, stems |-> {"build"}, ext |-> ""],
       [shape |-> "dir", i |-> FALSE, stems |-> {"coverage"}, ext |-> ""],
       [shape |-> "dir", i |-> FALSE, stems |-> {"vendor"}, ext |-> ""],
       [shape |-> "dir", i |-> FALSE, stems |-> {""}, ext |-> ".git"],
       [shape |-> "suffix", i |-> TRUE, stems |-> {}, ext |-> ".pem"],
       [shape |-> "suffix", i |-> TRUE, stems |-> {}, ext |-> ".key"],
       [shape |-> "within", i |-> TRUE, stems |-> {"id_rsa"}, ext |-> ""],
       [shape |-> "within", i |-> TRUE, stems |-> {"id_dsa"}, ext |-> ""],
       [shape |-> "suffix", i |-> TRUE, stems |-> {}, ext |-> ".pfx"],
       [shape |-> "suffix", i |-> TRUE, stems |-> {}, ext |-> ".p12"],
       [shape |-> "suffix", i |-> TRUE, stems |-> {}, ext |-> ".crt"],
       [shape |-> "suffix", i |-> TRUE, stems |-> {}, ext |-> ".cert"],
       [shape |-> "suffix", i |-> TRUE, stems |-> {}, ext |-> ".keystore"],
       [shape |-> "tail", i |-> TRUE, stems |-> {"package-lock"}, ext |-> ".json"],
       [shape |-> "tail", i |-> TRUE, stems |-> {"pnpm-lock"}, ext |-> ".yaml"],
       [shape |-> "tail", i |-> TRUE, stems |-> {"yarn"}, ext |-> ".lock"] >>

\* the basename: filename.split('/').pop()
pop(filename) == filename[Len(filename)]

\* p.test(filename)
test(p, filename) ==
    CASE p.shape = "env" ->
            \E k \in DOMAIN filename :
                \/ /\ k = Len(filename)
                   /\ filename[k].stem = ""
                   /\ flagged(p, filename[k].ext) = p.ext
                \/ /\ flagged(p, filename[k].stem) \in p.stems
                   /\ filename[k].ext # ""
      [] p.shape = "segment" ->
            \E k \in DOMAIN filename :
                flagged(p, filename[k].stem) \in p.stems /\ filename[k].ext = p.ext
      [] p.shape = "dir" ->
            \E k \in DOMAIN filename :
                /\ k < Len(filename)
                /\ flagged(p, filename[k].stem) \in p.stems
                /\ flagged(p, filename[k].ext) = p.ext
      [] p.shape = "suffix" -> flagged(p, pop(filename).ext) = p.ext
      [] p.shape = "within" ->
            \E k \in DOMAIN filename : \E name \in p.stems :
                holds(flagged(p, filename[k].stem), name)
      [] p.shape = "tail" ->
            /\ flagged(p, pop(filename).ext) = p.ext
            /\ \E name \in p.stems : endsWith(flagged(p, pop(filename).stem), name)
      [] p.shape = "name" ->
            /\ flagged(p, pop(filename).stem) \in p.stems
            /\ flagged(p, pop(filename).ext) = p.ext
      [] p.shape = "prefix" ->
            /\ flagged(p, pop(filename).stem) \in p.stems
            /\ pop(filename).ext # ""

some(patterns, filename) == \E k \in DOMAIN patterns : test(patterns[k], filename)

isSensitiveFile(filename) == some(SENSITIVE_FILE_PATTERNS, filename)

\* lines 105-121: each is \.ext$ under the i flag
ALLOWED_FILE_EXTENSIONS ==
    [k \in 1..16 |->
        [shape |-> "suffix", i |-> TRUE, stems |-> {},
         ext |-> <<".js", ".ts", ".tsx", ".jsx", ".vue", ".py", ".go", ".rb", ".java",
                   ".cs", ".sh", ".sql", ".md", ".json", ".yml", ".yaml">>[k]]]

\* line 125: ^Dockerfile$, ^Dockerfile\., ^Makefile$, ^package\.json$, tested on
\* the basename
ALLOWED_FILENAMES ==
    << [shape |-> "name", i |-> TRUE, stems |-> {"dockerfile"}, ext |-> ""],
       [shape |-> "prefix", i |-> TRUE, stems |-> {"dockerfile"}, ext |-> ""],
       [shape |-> "name", i |-> TRUE, stems |-> {"makefile"}, ext |-> ""],
       [shape |-> "name", i |-> TRUE, stems |-> {"package"}, ext |-> ".json"] >>

isAllowedFile(filename) ==
    some(ALLOWED_FILE_EXTENSIONS, filename) \/ some(ALLOWED_FILENAMES, <<pop(filename)>>)

filterAllowedOnly(files) ==
    filterIn(files, {f \in Range(files) : isAllowedFile(f.filename)}, TRUE)

\* the included files, in input order
RECURSIVE filterSafeFiles(_)
filterSafeFiles(files) ==
    IF files = <<>> THEN <<>>
    ELSE (IF isSensitiveFile(Head(files).filename) THEN <<>>
          ELSE IF ~isAllowedFile(Head(files).filename) THEN <<>>
          ELSE <<Head(files)>>)
         \o filterSafeFiles(Tail(files))

(***************************************************************************)
(* sanitizeDiff.  The tokens of a diff: "dash" (one "-"), "kw" (the words  *)
(* BEGIN and END), "word" (four letters), "run" (v digits, v the count),   *)
(* "gh" ("ghp"), "us" ("_"), "slash" ("/"), "aws" (AKIA and sixteen of     *)
(* [0-9A-Z]), "sp" (one blank), "nl", and "redacted" (a placeholder).      *)
(***************************************************************************)
BEGIN == Tok("kw", "BEGIN")

END == Tok("kw", "END")

US == Tok("us", "_")

SLASH == Tok("slash", "/")

GH == Tok("gh", "ghp")

AWS == Tok("aws", "AKIA0123456789ABCDEF")

RUN(v) == Tok("run", v)

REDACTED(v) == Tok("redacted", v)

D5 == <<DASH, DASH, DASH, DASH, DASH>>

\* [^-]
NotDash(t) == t.k # "dash"

\* [A-Za-z0-9_-]
IsTokenChar(t) == t.k \in {"dash", "kw", "word", "run", "gh", "us", "aws"}

\* [A-Za-z0-9\/+=]
IsBase64Char(t) == t.k \in {"kw", "word", "run", "gh", "slash", "aws"}

\* T holds the tokens of lit from position i on
litAt(T, i, lit) == i + Len(lit) - 1 <= Len(T) /\ SubSeq(T, i, i + Len(lit) - 1) = lit

\* the position after the longest stretch of [^-] tokens from i on
RECURSIVE labelEnd(_, _)
labelEnd(T, i) == IF i <= Len(T) /\ NotDash(T[i]) THEN labelEnd(T, i + 1) ELSE i

\* <lit> [^-]+----- at position i: the position after it, 0 when it is not there
delimiterEnd(T, i, lit) ==
    IF /\ litAt(T, i, lit)
       /\ labelEnd(T, i + Len(lit)) > i + Len(lit)
       /\ litAt(T, labelEnd(T, i + Len(lit)), D5)
    THEN labelEnd(T, i + Len(lit)) + 5
    ELSE 0

\* [\s\S]*? then -----END [^-]+-----, from position m on: the position after the
\* first such delimiter, 0 when there is none
RECURSIVE footerEnd(_, _)
footerEnd(T, m) ==
    IF m > Len(T) THEN 0
    ELSE IF delimiterEnd(T, m, D5 \o <<END, SP>>) > 0
         THEN delimiterEnd(T, m, D5 \o <<END, SP>>)
         ELSE footerEnd(T, m + 1)

\* the PEM pattern at position i: the position after the match, 0 without one
pemEnd(T, i) ==
    IF delimiterEnd(T, i, D5 \o <<BEGIN, SP>>) > 0
    THEN footerEnd(T, delimiterEnd(T, i, D5 \o <<BEGIN, SP>>))
    ELSE 0

\* replace(/-----BEGIN [^-]+-----[\s\S]*?-----END [^-]+-----/g, ...)
RECURSIVE replacePem(_, _)
replacePem(T, i) ==
    IF i > Len(T) THEN <<>>
    ELSE IF pemEnd(T, i) > 0
         THEN <<REDACTED("[REDACTED_PEM_BLOCK]")>> \o replacePem(T, pemEnd(T, i))
         ELSE <<T[i]>> \o replacePem(T, i + 1)

\* replace(/AKIA[0-9A-Z]{16}/g, ...)
RECURSIVE replaceAws(_)
replaceAws(T) ==
    IF T = <<>> THEN <<>>
    ELSE (IF Head(T).k = "aws" THEN <<REDACTED("[REDACTED_AWS_KEY]")>> ELSE <<Head(T)>>)
         \o replaceAws(Tail(T))

\* the position after the longest stretch of tokens of the class from i on
RECURSIVE runEnd(_, _, _)
runEnd(T, i, base64) ==
    IF i <= Len(T) /\ (IF base64 THEN IsBase64Char(T[i]) ELSE IsTokenChar(T[i]))
    THEN runEnd(T, i + 1, base64)
    ELSE i

\* gh[a-z]{1,3}_[A-Za-z0-9_-]{20,} at position i: the position after the match
ghEnd(T, i) ==
    IF litAt(T, i, <<GH, US>>) /\ length(Sub(T, i + 2, runEnd(T, i + 2, FALSE) - 1)) >= 20
    THEN runEnd(T, i + 2, FALSE)
    ELSE 0

\* replace(/gh[a-z]{1,3}_[A-Za-z0-9_-]{20,}/gi, ...)
RECURSIVE replaceGithub(_, _)
replaceGithub(T, i) ==
    IF i > Len(T) THEN <<>>
    ELSE IF ghEnd(T, i) > 0
         THEN <<REDACTED("[REDACTED_GITHUB_TOKEN]")>> \o replaceGithub(T, ghEnd(T, i))
         ELSE <<T[i]>> \o replaceGithub(T, i + 1)

\* the callback of lines 178-184 on a match: the test passes on every match of
\* the pattern, whose characters are all of the class
redactLong(match) ==
    IF (\A k \in DOMAIN match : IsBase64Char(match[k])) /\ length(match) >= 40
    THEN <<REDACTED("[REDACTED_LONG_STRING]")>>
    ELSE match

\* replace(/[A-Za-z0-9\/+=]{40,}/g, match => ...)
RECURSIVE replaceLong(_, _)
replaceLong(T, i) ==
    IF i > Len(T) THEN <<>>
    ELSE IF runEnd(T, i, TRUE) > i
         THEN (IF length(Sub(T, i, runEnd(T, i, TRUE) - 1)) >= 40
               THEN redactLong(Sub(T, i, runEnd(T, i, TRUE) - 1))
               ELSE Sub(T, i, runEnd(T, i, TRUE) - 1))
              \o replaceLong(T, runEnd(T, i, TRUE))
         ELSE <<T[i]>> \o replaceLong(T, i + 1)

sanitizeDiff(diffText) ==
    replaceLong(replaceGithub(replaceAws(replacePem(diffText, 1)), 1), 1)

(***************************************************************************)
(* formatUnifiedPatch and truncate.  More tokens: "lit" (a literal of the  *)
(* program), "filename" (v a filename; no filename of the vocabulary holds  *)
(* anything sanitizeDiff matches), "lines" (v characters of short lines of  *)
(* code, nothing in them that sanitizeDiff matches).                        *)
(***************************************************************************)
LIT(v) == Tok("lit", v)

LINES(n) == Tok("lines", n)

maxFileSize == 50000

maxTotalSize == 150000

\* \n--- a/${f.filename}\n+++ b/${f.filename}\n
header(f) ==
    <<NL, LIT("--- a/"), Tok("filename", f.filename), NL,
      LIT("+++ b/"), Tok("filename", f.filename), NL>>

\* the loop that counts a patch over the per-file ceiling in the total
RECURSIVE patchLoopCountsAll(_, _, _)
patchLoopCountsAll(files, k, totalSize) ==
    IF k > Len(files) THEN <<>>
    ELSE IF files[k].patch = <<>> THEN patchLoopCountsAll(files, k + 1, totalSize)
    ELSE IF length(files[k].patch) > maxFileSize
         THEN header(files[k]) \o <<LIT("[File too large for review]"), NL>>
              \o patchLoopCountsAll(files, k + 1, totalSize + length(files[k].patch))
    ELSE IF totalSize + length(files[k].patch) > maxTotalSize
         THEN <<NL, LIT("[Additional files truncated for size]"), NL>>
    ELSE header(files[k]) \o files[k].patch \o <<NL>>
         \o patchLoopCountsAll(files, k + 1, totalSize + length(files[k].patch))

\* the loop with continue in place of break: a file that does not fit is passed
\* over and a later one that fits is taken
RECURSIVE patchLoopSkips(_, _, _)
patchLoopSkips(files, k, totalSize) ==
    IF k > Len(files) THEN <<>>
    ELSE IF files[k].patch = <<>> THEN patchLoopSkips(files, k + 1, totalSize)
    ELSE IF length(files[k].patch) > maxFileSize
         THEN header(files[k]) \o <<LIT("[File too large for review]"), NL>>
              \o patchLoopSkips(files, k + 1, totalSize)
    ELSE IF totalSize + length(files[k].patch) > maxTotalSize
         THEN <<NL, LIT("[Additional files truncated for size]"), NL>>
              \o patchLoopSkips(files, k + 1, totalSize)
    ELSE header(files[k]) \o files[k].patch \o <<NL>>
         \o patchLoopSkips(files, k + 1, totalSize + length(files[k].patch))

\* the loop of lines 196-208 from the k-th file on
RECURSIVE patchLoop(_, _, _)
patchLoop(files, k, totalSize) ==
    IF k > Len(files) THEN <<>>
    ELSE IF files[k].patch = <<>> THEN patchLoop(files, k + 1, totalSize)
    ELSE IF length(files[k].patch) > maxFileSize
         THEN header(files[k]) \o <<LIT("[File too large for review]"), NL>>
              \o patchLoop(files, k + 1, totalSize)
    ELSE IF totalSize + length(files[k].patch) > maxTotalSize
         THEN <<NL, LIT("[Additional files truncated for size]"), NL>>
    ELSE header(files[k]) \o files[k].patch \o <<NL>>
         \o patchLoop(files, k + 1, totalSize + length(files[k].patch))

formatUnifiedPatch(files) == patchLoop(files, 1, 0)

truncate(str, n) ==
    IF length(str) <= n THEN str
    ELSE slice(str, n) \o <<NL, NL, LIT("[...diff truncated for token safety...]")>>

\* lines 355-358: the diff of the request
diffOf(files, MAX_DIFF_CHARS) ==
    truncate(sanitizeDiff(formatUnifiedPatch(filterSafeFiles(files))),
             parseInt(MAX_DIFF_CHARS))

(***************************************************************************)
(* Function checks of the diff's stages                                    *)
(***************************************************************************)
\* the segments filenames are made of
PathSegs ==
    { Seg("src", ""), Seg("secrets", ""), Seg("Secrets", ""), Seg("vendor", ""),
      Seg("Vendor", ""), Seg("node_modules", ""), Seg("NODE_MODULES", ""),
      Seg("build", ""), Seg("Build", ""), Seg("dist", ""), Seg("coverage", ""),
      Seg("", ".git"), Seg("", ".GIT"), Seg("", ".env"), Seg(".env", ".local"),
      Seg("app", ".ts"), Seg("lib", ".go"), Seg("db", ".yml"), Seg("x", ".js"),
      Seg("a", ".JS"), Seg("config", ".json"), Seg("server", ".pem"),
      Seg("cert", ".PEM"), Seg("id_rsa", ""), Seg("valid_rsa_check", ".js"),
      Seg("package-lock", ".json"), Seg("my-package-lock", ".json"),
      Seg("package", ".json"), Seg("Dockerfile", ""), Seg("DOCKERFILE", ".prod"),
      Seg("Makefile", ""), Seg("notes", ".txt"), Seg("yarn", ".lock"),
      Seg("README", "") }

File(filename, patch) == [filename |-> filename, patch |-> patch]

IdleInput == [fn |-> "none", files |-> <<>>, text |-> <<>>, max |-> "0"]

\* the changed files of pull requests that lists of files are drawn from
ChangedFiles ==
    { File(<<Seg("src", ""), Seg("app", ".ts")>>, <<LINES(50000)>>),
      File(<<Seg("src", ""), Seg("x", ".js")>>, <<LINES(50001)>>),
      File(<<Seg("src", ""), Seg("lib", ".go")>>, <<LINES(49970), NL, RUN("44")>>),
      File(<<Seg("config", ".json")>>, <<W("name"), SP, AWS>>),
      File(<<Seg("vendor", ""), Seg("lib", ".go")>>, <<W("code")>>),
      File(<<Seg("notes", ".txt")>>, <<W("text")>>),
      File(<<Seg("Makefile", "")>>, <<>>) }

\* the filenames of the files whose patches the budget is checked on, in order
PatchNames ==
    << <<Seg("src", ""), Seg("app", ".ts")>>, <<Seg("src", ""), Seg("x", ".js")>>,
       <<Seg("config", ".json")>>, <<Seg("notes", ".txt")>>,
       <<Seg("src", ""), Seg("lib", ".go")>>, <<Seg("Makefile", "")>>,
       <<Seg("src", ""), Seg("config", ".json")>> >>

\* the lengths of their patches: none, one character, the per-file ceiling, one
\* more than it
PatchSizes == {0, 1, maxFileSize, maxFileSize + 1}

patchOf(n) == IF n = 0 THEN <<>> ELSE <<LINES(n)>>

\* the max_diff_chars inputs
MaxDiffChars == {"180000", "100", "20", "0"}

\* the pieces diff texts are made of
DiffChunks ==
    { D5 \o <<BEGIN, SP, W("CERT")>> \o D5,
      D5 \o <<BEGIN, SP, GH, US, RUN("4"), DASH, RUN("20"), SP, W("CERT")>> \o D5,
      D5 \o <<END, SP, W("CERT")>> \o D5,
      <<RUN("44")>>,
      <<W("name"), US, RUN("44"), DASH, W("hash")>>,
      <<RUN("20")>>,
      <<SLASH>>,
      <<AWS>>,
      <<GH, US, RUN("20")>>,
      <<GH, US, RUN("4")>>,
      <<DASH>>,
      <<SP>>,
      <<NL>> }

RECURSIVE concat(_)
concat(chunks) == IF chunks = <<>> THEN <<>> ELSE Head(chunks) \o concat(Tail(chunks))

InInit ==
    /\ \/ \E k \in 0..MaxChunks : \E chunks \in [1..k -> DiffChunks] :
            probe = [IdleInput EXCEPT !.fn = "sanitize", !.text = concat(chunks)]
       \/ \E k \in 1..MaxDepth : \E filename \in [1..k -> PathSegs] :
            probe = [IdleInput EXCEPT !.fn = "filter", !.files = <<File(filename, <<>>)>>]
       \/ \E k \in 0..MaxFiles : \E files \in [1..k -> ChangedFiles] :
            probe = [IdleInput EXCEPT !.fn = "filter", !.files = files]
       \/ \E k \in 0..MaxPatches : \E sizes \in [1..k -> PatchSizes] :
            probe = [IdleInput EXCEPT !.fn = "patch",
                        !.files = [i \in 1..k |-> File(PatchNames[i], patchOf(sizes[i]))]]
       \/ \E k \in 0..MaxFiles, max \in MaxDiffChars : \E files \in [1..k -> ChangedFiles] :
            probe = [IdleInput EXCEPT !.fn = "diff", !.files = files, !.max = max]
    /\ applied = FALSE
    /\ outReview = NoReview
    /\ outSet = {}
    /\ outBool = FALSE
    /\ outText = <<>>
    /\ outFiles = <<>>
    /\ lastIndex = 1
    /\ FAIL_ON_SEVERITY = NotJson
    /\ comments = <<>>
    /\ pc = [r \in Runs |-> "idle"]
    /\ failOn = [r \in Runs |-> {}]
    /\ text = [r \in Runs |-> <<>>]
    /\ parsed = [r \in Runs |-> NoReview]
    /\ botComment = [r \in Runs |-> 0]
    /\ exitCode = [r \in Runs |-> -1]
    /\ threw = [r \in Runs |-> "none"]
    /\ wrote = [r \in Runs |-> NoWrite]

ApplyFilter ==
    /\ probe.fn = "filter" /\ ~applied
    /\ applied' = TRUE
    /\ outFiles' = filterSafeFiles(probe.files)
    /\ UNCHANGED <<probe, outReview, outSet, outBool, outText, lastIndex>>
    /\ UNCHANGED pipelineVars

ApplySanitize ==
    /\ probe.fn = "sanitize" /\ ~applied
    /\ applied' = TRUE
    /\ outText' = sanitizeDiff(probe.text)
    /\ UNCHANGED <<probe, outReview, outSet, outBool, outFiles, lastIndex>>
    /\ UNCHANGED pipelineVars

ApplyDiff ==
    /\ probe.fn = "diff" /\ ~applied
    /\ applied' = TRUE
    /\ outText' = diffOf(probe.files, probe.max)
    /\ UNCHANGED <<probe, outReview, outSet, outBool, outFiles, lastIndex>>
    /\ UNCHANGED pipelineVars

ApplyPatch ==
    /\ probe.fn = "patch" /\ ~applied
    /\ applied' = TRUE
    /\ outText' = formatUnifiedPatch(probe.files)
    /\ UNCHANGED <<probe, outReview, outSet, outBool, outFiles, lastIndex>>
    /\ UNCHANGED pipelineVars

InNext == ApplyFilter \/ ApplySanitize \/ ApplyPatch \/ ApplyDiff

SpecIn == InInit /\ [][InNext]_vars

(***************************************************************************)
(* Properties                                                              *)
(***************************************************************************)
\* the findings of a list whose severity is in S
Blocking(issues, S) == {i \in DOMAIN issues : issues[i].severity \in S}

\* C1: the gate decision is true iff at least one finding of the Review has a
\* severity that is a member of the configured blocking set; a Review without
\* findings never blocks, and an empty blocking set never blocks.
GateBlocksIffBlockingFinding ==
    (probe.fn = "gate" /\ applied) =>
        /\ outBool = (Blocking(probe.issues, probe.set) # {})
        /\ (probe.issues = <<>> => ~outBool)
        /\ (probe.set = {} => ~outBool)

\* the gate blocked on a finding that is not the first of the list
GateBlockedOnLaterFinding ==
    /\ probe.fn = "gate" /\ applied /\ outBool
    /\ Len(probe.issues) = 2
    /\ probe.issues[1].severity \notin probe.set

\* the comments of the pull request that bear the marker token
MarkerComments == {i \in DOMAIN comments : includesMarker(comments[i].body)}

\* C2: in every reachable state, whatever the number of runs for the same pull
\* request and however their list, create and update steps interleave, at most
\* one comment bears the marker token.
AtMostOneMarkerComment == Cardinality(MarkerComments) <= 1

\* two runs listed the comments before either posted, and both created one
TwoRunsBothCreated ==
    \E q, r \in Runs :
        /\ q # r
        /\ wrote[q].op = "create" /\ wrote[r].op = "create"
        /\ Cardinality(MarkerComments) = 2

\* r ran to completion: it ended and nothing was thrown
Completed(r) == pc[r] = "exited" /\ threw[r] = "none"

\* C3: when runs for the same pull request run to completion one after the
\* other, exactly one comment bears the marker token afterwards: the first
\* completed run created it and every later one updated that same comment.
SequentialRunsShareOneComment ==
    \A r \in Runs :
        Completed(r) =>
            /\ Cardinality(MarkerComments) = 1
            /\ wrote[r].id \in MarkerComments
            /\ IF \E q \in 1..(r - 1) : Completed(q)
               THEN /\ wrote[r].op = "update"
                    /\ \A q \in 1..(r - 1) : Completed(q) => wrote[q].id = wrote[r].id
               ELSE wrote[r].op = "create"

\* the first two runs both completed, one after the other
SecondRunUpdated ==
    /\ Completed(1) /\ Completed(2)
    /\ wrote[1].op = "create" /\ wrote[2].op = "update"
    /\ wrote[1].id = wrote[2].id

\* the text is empty or holds only whitespace
Blank(T) == \A i \in DOMAIN T : T[i].k \in {"sp", "nl"}

\* the text holds a severity marker
HasMarker(T) == \E i \in DOMAIN T : T[i].k = "marker"

\* the text holds a phrase such as "looks good" or "no issues"
HasPositivePhrase(T) == \E i \in DOMAIN T : T[i].k = "good"

\* the Review that stands for a response nothing could be read from
LoudFailure(review) ==
    /\ Len(review.issues) = 1
    /\ "parsing-error" \in review.issues[1].tags
    /\ review.overall_risk = "medium"

UnreadableResponseIsLoudFailure ==
    (probe.fn = "extract" /\ applied
        /\ ~HasMarker(probe.text) /\ ~HasPositivePhrase(probe.text))
        => LoudFailure(outReview)

\* a response without marker or positive phrasing came back as a clean Review
UnreadableResponseCameBackClean ==
    /\ probe.fn = "extract" /\ applied
    /\ ~Blank(probe.text)
    /\ ~HasMarker(probe.text) /\ ~HasPositivePhrase(probe.text)
    /\ outReview.issues = <<>>
    /\ outReview.overall_risk = "low"

\* C6: every Review the interpreter returns has overall_risk in {low, medium,
\* high, critical} and every finding's severity in {info, low, medium, high,
\* critical, security}.
ReviewStaysInClosedSets ==
    (probe.fn \in {"extract", "interpret", "robust"} /\ applied /\ ~outBool) =>
        /\ outReview.overall_risk \in Risks
        /\ \A i \in DOMAIN outReview.issues : outReview.issues[i].severity \in Severities

\* a response whose risk token and marker are not written in lower case
MixedCaseResponseParsed ==
    /\ probe.fn = "extract" /\ applied
    /\ \E i \in DOMAIN probe.text : probe.text[i] = RISK("Medium")
    /\ \E i \in DOMAIN probe.text : probe.text[i] = M("Critical")
    /\ outReview.overall_risk = "medium"
    /\ outReview.issues # <<>> /\ outReview.issues[1].severity = "critical"

\* the order low < medium < high < critical
Rank(risk) ==
    CASE risk = "low" -> 0
      [] risk = "medium" -> 1
      [] risk = "high" -> 2
      [] risk = "critical" -> 3

\* the risk the findings imply
ImpliedRisk(issues) ==
    IF Blocking(issues, {"critical", "security"}) # {} THEN "critical"
    ELSE IF Blocking(issues, {"high"}) # {} THEN "high"
    ELSE IF Blocking(issues, {"medium"}) # {} THEN "medium"
    ELSE "low"

\* the text holds an OVERALL RISK token
HasRiskToken(T) == \E i \in DOMAIN T : T[i].k = "risk"

\* C7: a Review produced from a text without an explicit risk token, by the
\* embedded-JSON, the pattern or the generic strategy, has an overall_risk that
\* is not lower than the risk its findings imply.
RiskNotBelowFindings ==
    (probe.fn \in {"extract", "robust"} /\ applied /\ ~HasRiskToken(probe.text)) =>
        Rank(outReview.overall_risk) >= Rank(ImpliedRisk(outReview.issues))

\* prose followed by a JSON object with a critical finding and no overall_risk
\* came back with overall_risk low
EmbeddedJsonUnderstatedRisk ==
    /\ probe.fn = "robust" /\ applied
    /\ probe.text = <<W("hello"), SP, OBJ("crit")>>
    /\ outReview.overall_risk = "low"
    /\ outReview.issues # <<>> /\ outReview.issues[1].severity = "critical"

\* C8: a run ends with exit code 1 iff the gate decision is true or a stage
\* threw an error that was not recovered; otherwise it ends with exit code 0.
ExitCodeIffBlockedOrThrew ==
    \A r \in Runs :
        pc[r] = "exited" =>
            /\ exitCode[r] \in {0, 1}
            /\ (exitCode[r] = 1)
                 = (threw[r] # "none" \/ Blocking(parsed[r].issues, failOn[r]) # {})

\* a run posted its comment and ended with exit code 1 on a blocking finding,
\* another ended with exit code 0
GateFailedOneRunPassedAnother ==
    \E q, r \in Runs :
        /\ Completed(q) /\ exitCode[q] = 1
        /\ Completed(r) /\ exitCode[r] = 0

\* C9: a run that aborts with an unrecovered error creates and updates no
\* comment: the aborting step leaves every comment as it was, and the run has
\* written none before.
AbortedRunWritesNoComment ==
    [][\A r \in Runs :
         (threw[r] = "none" /\ threw'[r] # "none")
            => /\ comments' = comments
               /\ wrote[r] = NoWrite /\ wrote'[r] = NoWrite]_vars

\* a run aborted after another run had posted the marker-bearing comment
AbortedBesidePostedComment ==
    \E q, r \in Runs :
        /\ threw[r] \in {"getPR", "listFiles", "model", "empty", "artifact", "listComments"}
        /\ wrote[r] = NoWrite
        /\ wrote[q].op = "create"
        /\ MarkerComments # {}

\* C10: reading the blocking-severity input always yields a set: the default
\* {high, critical, security} when the input is not JSON, not an array, or
\* lists an element outside the severity enumeration, and otherwise exactly the
\* listed elements; in every case a subset of the enumeration.
FailOnIsDefaultOrListed ==
    (probe.fn = "failOn" /\ applied) =>
        /\ outSet = IF \/ probe.cfg.kind # "array"
                       \/ \E i \in DOMAIN probe.cfg.elems : probe.cfg.elems[i] \notin Severities
                    THEN {"high", "critical", "security"}
                    ELSE Range(probe.cfg.elems)
        /\ outSet \subseteq Severities

\* an array with a listed element outside the enumeration fell back to the default
InvalidElementFellBack ==
    /\ probe.fn = "failOn" /\ applied
    /\ probe.cfg.kind = "array"
    /\ \E i \in DOMAIN probe.cfg.elems : probe.cfg.elems[i] \in Severities
    /\ \E i \in DOMAIN probe.cfg.elems : probe.cfg.elems[i] \notin Severities
    /\ outSet = defaultFailOn

(***************************************************************************)
(* The file classifier                                                     *)
(***************************************************************************)
Included(f) == \E k \in DOMAIN outFiles : outFiles[k] = f

secretsDbYml == <<Seg("secrets", ""), Seg("db", ".yml")>>

vendorLibGo == <<Seg("vendor", ""), Seg("lib", ".go")>>

srcAppTs == <<Seg("src", ""), Seg("app", ".ts")>>

lowerCased(filename) ==
    [k \in DOMAIN filename |-> Seg(fold(filename[k].stem), fold(filename[k].ext))]

\* C14: sensitive-path matching ignores letter case: a file whose lower-cased
\* path is sensitive is never included.
SensitiveMatchIgnoresLetterCase ==
    (probe.fn = "filter" /\ applied) =>
        \A f \in Range(probe.files) : isSensitiveFile(lowerCased(f.filename)) => ~Included(f)

CapitalisedVendorPathIncluded ==
    /\ probe.fn = "filter" /\ applied
    /\ probe.files = <<File(<<Seg("Vendor", ""), Seg("lib", ".go")>>, <<>>)>>
    /\ outFiles = probe.files

\* the names and extensions the sensitive patterns list
SensitiveNames ==
    { Seg("", ".env"), Seg("secret", ""), Seg("secrets", ""), Seg("node_modules", ""),
      Seg("dist", ""), Seg("build", ""), Seg("coverage", ""), Seg("vendor", ""),
      Seg("", ".git"), Seg("id_rsa", ""), Seg("id_dsa", ""), Seg("package-lock", ".json"),
      Seg("pnpm-lock", ".yaml"), Seg("yarn", ".lock") }

SensitiveExtensions == {".pem", ".key", ".pfx", ".p12", ".crt", ".cert", ".keystore"}

\* a whole segment is a sensitive name (or .env with a suffix), or the file's
\* extension is a sensitive one
WholeSegmentSensitive(filename) ==
    \/ \E k \in DOMAIN filename :
        \/ Seg(fold(filename[k].stem), fold(filename[k].ext)) \in SensitiveNames
        \/ fold(filename[k].stem) = ".env"
    \/ fold(pop(filename).ext) \in SensitiveExtensions

\* C15: a path is excluded as sensitive only when a whole segment or the
\* extension matches: an allowed file none of whose segments is a sensitive
\* name is included.
SensitiveOnlyOnWholeSegment ==
    (probe.fn = "filter" /\ applied) =>
        \A f \in Range(probe.files) :
            (isAllowedFile(f.filename) /\ ~WholeSegmentSensitive(f.filename)) => Included(f)

InnocuousNameExcluded ==
    /\ probe.fn = "filter" /\ applied
    /\ probe.files = <<File(<<Seg("src", ""), Seg("valid_rsa_check", ".js")>>, <<>>)>>
    /\ outFiles = <<>>
    /\ lastIndex = 1

(***************************************************************************)
(* The redactor                                                            *)
(***************************************************************************)
\* C12: sanitizeDiff is idempotent: applied to its own output it changes
\* nothing.
SanitizeDiffIsIdempotent ==
    (probe.fn = "sanitize" /\ applied) => sanitizeDiff(outText) = outText

\* a BEGIN line whose label held a token with a "-", then the END line
TokenRedactedInsidePemHeader ==
    /\ probe.fn = "sanitize" /\ applied
    /\ probe.text = D5 \o <<BEGIN, SP, GH, US, RUN("4"), DASH, RUN("20"), SP, W("CERT")>> \o D5
                    \o D5 \o <<END, SP, W("CERT")>> \o D5
    /\ outText = D5 \o <<BEGIN, SP, REDACTED("[REDACTED_GITHUB_TOKEN]"), SP, W("CERT")>> \o D5
                 \o D5 \o <<END, SP, W("CERT")>> \o D5
    /\ sanitizeDiff(outText) = <<REDACTED("[REDACTED_PEM_BLOCK]")>>

\* C19: a standalone run of 44 base64 characters is replaced by the
\* long-string placeholder, and the same run inside a longer identifier with
\* "_" and "-" is left unchanged.
StandaloneRunRedactedEmbeddedRunKept ==
    (probe.fn = "sanitize" /\ applied) =>
        /\ probe.text = <<RUN("44")>> => outText = <<REDACTED("[REDACTED_LONG_STRING]")>>
        /\ probe.text = <<W("name"), US, RUN("44"), DASH, W("hash")>> => outText = probe.text

EmbeddedRunRedacted ==
    /\ probe.fn = "sanitize" /\ applied
    /\ probe.text = <<W("name"), US, RUN("44"), DASH, W("hash")>>
    /\ outText = <<W("name"), US, REDACTED("[REDACTED_LONG_STRING]"), DASH, W("hash")>>

(***************************************************************************)
(* The payload budget                                                      *)
(***************************************************************************)
\* C11: the diff handed to the model call is at most max_diff_chars characters
\* long, the truncation suffix included.
DiffWithinMaxDiffChars ==
    (probe.fn = "diff" /\ applied) => length(outText) <= parseInt(probe.max)

TruncatedDiffLongerThanMax ==
    /\ probe.fn = "diff" /\ applied
    /\ probe.max = "100"
    /\ Len(probe.files) = 1 /\ probe.files[1].filename = srcAppTs
    /\ outText = <<NL, LIT("--- a/"), Tok("filename", srcAppTs), NL,
                   LIT("+++ b/"), Tok("filename", srcAppTs), NL, Tok("cut", 65),
                   NL, NL, LIT("[...diff truncated for token safety...]")>>
    /\ length(outText) = 141

(***************************************************************************)
(* Well-formed markers                                                     *)
(***************************************************************************)
\* C16: a response with N well-formed markers yields N findings, the i-th with
\* the severity, title, file and line of the i-th marker.
EachMarkerYieldsItsFinding ==
    (probe.fn = "markers" /\ applied) =>
        /\ Len(outReview.issues) = Len(probe.issues)
        /\ \A i \in DOMAIN probe.issues :
            /\ outReview.issues[i].severity = toLowerCase(probe.issues[i].severity)
            /\ outReview.issues[i].title = probe.issues[i].title
            /\ outReview.issues[i].file = probe.issues[i].file
            /\ outReview.issues[i].line = probe.issues[i].line

UnderscoreDroppedFromTitle ==
    /\ probe.fn = "markers" /\ applied
    /\ Len(probe.issues) = 1
    /\ probe.issues[1].title = <<W("Validate"), SP, W("user"), Tok("us", "_"), W("id")>>
    /\ Len(outReview.issues) = 1
    /\ outReview.issues[1].title = <<W("Validate"), SP, W("user"), W("id")>>

\* an element valid against the strict schema: every member of its type,
\* line, suggestion and tags possibly null
validIssue(issue) ==
    /\ ~issue.nul
    /\ IsString(issue.file) /\ IsString(issue.title) /\ IsString(issue.detail)
    /\ IsNumber(issue.line) \/ issue.line = null
    /\ issue.severity \in Severities
    /\ issue.suggestion # undefined
    /\ issue.tags.kind \in {"array", null}

ValidDocument(json) ==
    /\ IsString(json.summary)
    /\ json.overall_risk \in Risks
    /\ json.isArray
    /\ \A i \in DOMAIN json.issues : validIssue(json.issues[i])

\* the members of a valid document, as a Review holds them
memberwise(issue) ==
    [file |-> <<W(issue.file)>>,
     line |-> IF issue.line = null THEN NullLine ELSE parseInt(issue.line),
     severity |-> issue.severity,
     title |-> <<W(issue.title)>>,
     detail |-> <<W(issue.detail)>>,
     suggestion |-> IF issue.suggestion = null THEN <<>> ELSE <<W(issue.suggestion)>>,
     tags |-> IF issue.tags.kind = null THEN {} ELSE Range(issue.tags.items)]

documentReview(json) ==
    [summary |-> <<W(json.summary)>>,
     overall_risk |-> json.overall_risk,
     issues |-> [i \in DOMAIN json.issues |-> memberwise(json.issues[i])]]

roundTrip(json, review) == ValidDocument(json) => review = documentReview(json)

issueObjects(json) ==
    IF json.isArray THEN Cardinality({i \in DOMAIN json.issues : ~json.issues[i].nul})
    ELSE 0

\* C18: when the whole response does not decode and is prose followed by one
\* JSON object, the Review returned has as many issues as the object's issues
\* array has issue objects
EmbeddedDocumentKeepsIssueCount ==
    (probe.fn = "parse" /\ applied /\ ~objectText(trim(probe.text)))
        => Len(outReview.issues) = issueObjects(parseJSON(jsonMatch(probe.text)))

\* prose, then a document whose issues array holds null and two issue objects:
\* the generic parsing-failure Review has been returned
EmbeddedDocumentDiscarded ==
    /\ probe.fn = "parse" /\ applied
    /\ probe.text = <<W("hello"), SP, OBJ("mixed")>>
    /\ parses(jsonMatch(probe.text))
    /\ outReview = genericResponse

\* the token holds a character that opens or closes emphasis, a code span, a
\* link or an HTML comment
opensOrCloses(t) == t.k \in {"star", "us", "tick", "marker", "html"}

\* C20: in the Markdown of a Review no character that came with the summary or
\* with a finding's title, detail, suggestion or file can open or close
\* emphasis, a code span, a link or the marker comment: each is escaped
FreeTextIsEscaped ==
    (probe.fn = "render" /\ applied)
        => \A i \in DOMAIN outText : ~opensOrCloses(outText[i])

\* a finding whose file is written between backticks has been rendered: the
\* backtick of the file follows the one that opens the code span, unescaped,
\* while the backticks of the title are escaped
FileBacktickInsideCodeSpan ==
    /\ probe.fn = "render" /\ applied
    /\ Len(outReview.issues) = 1
    /\ outReview.issues[1].file = <<TICK, PATH, TICK>>
    /\ outReview.issues[1].title = <<W("Use"), SP, TICK, W("x"), TICK>>
    /\ \E i \in DOMAIN outText :
          /\ i + 1 \in DOMAIN outText
          /\ outText[i] = MD("backtick") /\ outText[i + 1] = TICK
    /\ \E i \in DOMAIN outText : outText[i] = Tok("esc", "backtick")

\* the sum of the patch lengths of the first k files
RECURSIVE cumulative(_, _)
cumulative(files, k) ==
    IF k = 0 THEN 0 ELSE cumulative(files, k - 1) + length(files[k].patch)

\* the number of leading files whose cumulative patch length is within the
\* total ceiling
fitting(files) == Cardinality({k \in DOMAIN files : cumulative(files, k) <= maxTotalSize})

\* a file in full: its two header lines and its patch
inFull(f) ==
    <<NL, LIT("--- a/"), Tok("filename", f.filename), NL,
      LIT("+++ b/"), Tok("filename", f.filename), NL>> \o f.patch \o <<NL>>

RECURSIVE allInFull(_, _)
allInFull(files, n) ==
    IF n = 0 THEN <<>> ELSE allInFull(files, n - 1) \o inFull(files[n])

truncationNote == <<NL, LIT("[Additional files truncated for size]"), NL>>

\* every file has a patch within the per-file ceiling and the patches sum to
\* more than the total ceiling
OverTotalOnly(files) ==
    /\ \A k \in DOMAIN files :
          length(files[k].patch) >= 1 /\ length(files[k].patch) <= maxFileSize
    /\ cumulative(files, Len(files)) > maxTotalSize

\* C21: files within the per-file ceiling whose patches sum to more than the
\* total ceiling give a blob of the first files that fit, in order and in full,
\* then one truncation note, and nothing of any later file
BlobIsFittingPrefixThenNote ==
    (probe.fn = "patch" /\ applied /\ OverTotalOnly(probe.files))
        => outText = allInFull(probe.files, fitting(probe.files)) \o truncationNote

\* three files at the per-file ceiling fit, the fourth does not, and the fifth,
\* of one character, is dropped although it would fit
SmallFileAfterCutDropped ==
    /\ probe.fn = "patch" /\ applied
    /\ Len(probe.files) = 5
    /\ \A k \in 1..4 : probe.files[k].patch = <<LINES(maxFileSize)>>
    /\ probe.files[5].patch = <<LINES(1)>>
    /\ outText = allInFull(probe.files, 3) \o truncationNote

\* each file with its patch redacted
redacted(files) ==
    [k \in DOMAIN files |-> File(files[k].filename, sanitizeDiff(files[k].patch))]

\* the diff when the stages run in the order classify, redact, budget
redactThenBudget(files, MAX_DIFF_CHARS) ==
    truncate(formatUnifiedPatch(redacted(filterSafeFiles(files))), parseInt(MAX_DIFF_CHARS))

\* C22: the stages run in the order classify, redact, budget: the per-file and
\* the total ceiling are applied to patch text from which the secrets have
\* been redacted
CeilingsApplyToRedactedText ==
    (probe.fn = "diff" /\ applied) => outText = redactThenBudget(probe.files, probe.max)

srcLibGo == <<Seg("src", ""), Seg("lib", ".go")>>

\* a patch of 50015 characters that is 49993 characters long once its secret
\* is redacted has been replaced by the too-large stub
PatchStubbedOnUnredactedLength ==
    /\ probe.fn = "diff" /\ applied
    /\ probe.max = "180000"
    /\ Len(probe.files) = 1
    /\ probe.files[1] = File(srcLibGo, <<LINES(49970), NL, RUN("44")>>)
    /\ length(sanitizeDiff(probe.files[1].patch)) <= maxFileSize
    /\ outText = <<NL, LIT("--- a/"), Tok("filename", srcLibGo), NL,
                   LIT("+++ b/"), Tok("filename", srcLibGo), NL,
                   LIT("[File too large for review]"), NL>>

\* what the first strategy to succeed gives: the whole-text decode of a valid
\* document, or else as many issues as an embedded object has issue objects
firstStrategy(T, review) ==
    IF objectText(trim(T)) /\ ValidDocument(parseJSON(trim(T)))
    THEN review = documentReview(parseJSON(trim(T)))
    ELSE parses(jsonMatch(T)) => Len(review.issues) = issueObjects(parseJSON(jsonMatch(T)))

\* C23: the strategies are tried in the order whole-text decode, embedded JSON,
\* marker extraction, parsing-failure Review, and the Review returned is that of
\* the first one that succeeds
FirstStrategyWins ==
    (probe.fn = "document" /\ applied) => firstStrategy(probe.text, outReview)

\* a response that is a valid document of two findings came back with the
\* document as its summary and no finding
DocumentTakenAsSummary ==
    /\ probe.fn = "document" /\ applied /\ ~outBool
    /\ probe.text = <<OBJ("full")>>
    /\ ValidDocument(parseJSON(probe.text))
    /\ outReview = [summary |-> <<OBJ("full")>>, overall_risk |-> "low", issues |-> <<>>]

\* the position of the Suggestion: line of a marker's body (0: none)
suggestionAt(body) ==
    IF \E i \in DOMAIN body : IsSuggestionWord(body[i])
    THEN CHOOSE i \in DOMAIN body : IsSuggestionWord(body[i])
    ELSE 0

\* the detail and the suggestion a marker's body stands for
detailOf(body, at) ==
    IF trim(IF at = 0 THEN body ELSE Sub(body, 1, at - 1)) = <<>> THEN defaultDetail
    ELSE trim(IF at = 0 THEN body ELSE Sub(body, 1, at - 1))

suggestionOf(body, at) ==
    IF at = 0 THEN <<>> ELSE trim(Sub(body, at + 2, Len(body)))

ownBody(m, finding) ==
    /\ finding.detail = detailOf(m.body, suggestionAt(m.body))
    /\ finding.suggestion = suggestionOf(m.body, suggestionAt(m.body))

\* C24: the body of each finding is the text between its marker's line and the
\* next marker, also when the next marker follows at once: its detail is the
\* body before a Suggestion: line and its suggestion what follows it, and
\* nothing of a later finding is in either
EachFindingHasItsOwnBody ==
    (probe.fn \in {"markers", "render"} /\ applied /\ Len(outReview.issues) = Len(probe.issues))
        => \A i \in DOMAIN probe.issues : ownBody(probe.issues[i], outReview.issues[i])

\* two markers on consecutive lines: the first finding's detail is the line of
\* the second marker and what follows it
NextMarkerSwallowedAsDetail ==
    /\ probe.fn = "markers" /\ applied
    /\ Len(probe.issues) = 2 /\ Len(outReview.issues) = 2
    /\ probe.issues[1].body = <<>>
    /\ probe.issues[2].body = <<W("Detail")>>
    /\ outReview.issues[1].detail = joinLines(linesOf(probe.issues[2]))
    /\ outReview.issues[2].detail = <<W("Detail")>>

\* C25: the summary is never empty, and when the text holds a marker it is the
\* text before the first one, so that it holds no marker, also when the text
\* begins with a marker
SummaryHoldsNoMarker ==
    (probe.fn = "extract" /\ applied)
        => /\ outReview.summary # <<>>
           /\ HasMarker(probe.text) => ~HasMarker(outReview.summary)

\* a text that begins with a marker: the whole text is its summary
WholeTextIsSummary ==
    /\ probe.fn = "extract" /\ applied
    /\ probe.text = <<M("Critical"), SP, W("Leak")>>
    /\ Len(outReview.issues) = 1
    /\ outReview.summary = probe.text

\* the level of the first OVERALL RISK token of a text that holds one
tokenLevel(T) ==
    toLowerCase(T[CHOOSE i \in DOMAIN T :
                    T[i].k = "risk" /\ \A j \in 1..(i - 1) : T[j].k # "risk"].v)

\* C26: without an OVERALL RISK token the overall_risk is critical if a finding
\* is critical or security, else high if one is high, else medium if one is
\* medium, else low; with a token it is the token's level
RiskIsTokenOrDerived ==
    (probe.fn \in {"extract", "markers"} /\ applied)
        => outReview.overall_risk = IF HasRiskToken(probe.text) THEN tokenLevel(probe.text)
                                    ELSE ImpliedRisk(outReview.issues)

\* a security finding and no token: the risk is critical
SecurityFindingRatedCritical ==
    /\ probe.fn = "markers" /\ applied
    /\ ~HasRiskToken(probe.text)
    /\ Len(outReview.issues) = 1
    /\ outReview.issues[1].severity = "security"
    /\ outReview.overall_risk = "critical"

tooLarge(f) == length(f.patch) > maxFileSize

\* the blob without the stubs: a stub is the seven tokens of a header, the
\* too-large note and a newline
RECURSIVE withoutStubs(_)
withoutStubs(T) ==
    IF T = <<>> THEN <<>>
    ELSE IF Len(T) >= 9 /\ T[8] = LIT("[File too large for review]")
         THEN withoutStubs(Sub(T, 10, Len(T)))
    ELSE <<Head(T)>> \o withoutStubs(Tail(T))

\* the files that are not over the per-file ceiling, in order
RECURSIVE withinCeiling(_)
withinCeiling(files) ==
    IF files = <<>> THEN <<>>
    ELSE (IF tooLarge(Head(files)) THEN <<>> ELSE <<Head(files)>>)
         \o withinCeiling(Tail(files))

\* C27: a file whose patch is over the per-file ceiling gives its header and
\* the too-large stub and none of its patch, and counts nothing towards the
\* total: the rest of the blob is the blob of the other files alone
LargeFileIsStubOnly ==
    (probe.fn = "patch" /\ applied)
        => /\ \A i \in DOMAIN outText :
                 outText[i].k = "lines" => outText[i].v <= maxFileSize
           /\ withoutStubs(outText) = formatUnifiedPatch(withinCeiling(probe.files))

\* a file over the ceiling, then three files at the ceiling: the stub, then
\* the three in full and no truncation note
FilesAfterStubFitInFull ==
    /\ probe.fn = "patch" /\ applied
    /\ Len(probe.files) = 4
    /\ probe.files[1].patch = <<LINES(maxFileSize + 1)>>
    /\ \A k \in 2..4 : probe.files[k].patch = <<LINES(maxFileSize)>>
    /\ outText = <<NL, LIT("--- a/"), Tok("filename", probe.files[1].filename), NL,
                   LIT("+++ b/"), Tok("filename", probe.files[1].filename), NL,
                   LIT("[File too large for review]"), NL>>
                 \o inFull(probe.files[2]) \o inFull(probe.files[3]) \o inFull(probe.files[4])

\* the comment with the given id
commentOf(id) == CHOOSE c \in Range(comments) : c.id = id

truncationPointer == MD("[Comment truncated for size. See artifact for full report.]")

\* C28: every comment a run has created or updated holds the marker in its
\* body, also when the rendered Review was over the ceiling and was truncated
PostedBodyHoldsMarker ==
    \A r \in Runs :
        wrote[r].op # "none"
            => /\ \E c \in Range(comments) : c.id = wrote[r].id
               /\ includesMarker(commentOf(wrote[r].id).body)

\* a run has created a comment whose body was truncated: it begins with the
\* marker and ends with the pointer to the report
TruncatedBodyKeepsMarker ==
    \E r \in Runs :
        /\ wrote[r].op = "create"
        /\ text[r] = <<BIG>>
        /\ Head(commentOf(wrote[r].id).body) = marker
        /\ commentOf(wrote[r].id).body[Len(commentOf(wrote[r].id).body)] = truncationPointer

\* the id of the first comment listed whose body holds the marker (0: none)
firstMarked(cs) ==
    IF \E i \in DOMAIN cs : includesMarker(cs[i].body)
    THEN cs[CHOOSE i \in DOMAIN cs :
               /\ includesMarker(cs[i].body)
               /\ \A j \in 1..(i - 1) : ~includesMarker(cs[j].body)].id
    ELSE 0

\* the listing of run r returned: the comment to update is the first marked one
listed(r) ==
    (pc[r] = "listComments" /\ pc'[r] = "post")
        => botComment'[r] = firstMarked(comments) /\ comments' = comments

\* only the comment found changes, and the run has made an update of it
updatedOnly(r) ==
    /\ wrote'[r] = [op |-> "update", id |-> botComment[r]]
    /\ Len(comments') = Len(comments)
    /\ \A i \in DOMAIN comments :
          /\ comments'[i].id = comments[i].id
          /\ comments[i].id # botComment[r] => comments'[i] = comments[i]

\* one comment is added after the others, and the run has made a create
createdOnly(r) ==
    /\ wrote'[r].op = "create"
    /\ Len(comments') = Len(comments) + 1
    /\ Sub(comments', 1, Len(comments)) = comments

\* the write of run r returned
written(r) ==
    (pc[r] = "post" /\ pc'[r] = "exited" /\ threw'[r] = "none")
        => /\ wrote[r].op = "none"
           /\ IF botComment[r] # 0 THEN updatedOnly(r) ELSE createdOnly(r)

\* no other step of run r writes a comment
otherwise(r) == (pc[r] # "post" /\ pc'[r] # pc[r]) => wrote'[r] = wrote[r]

markersIn(T) == Cardinality({i \in DOMAIN T : IsMarker(T[i])})

\* an iteration that found a match has moved lastIndex forward
consumes == (probe.fn = "loop" /\ ~applied /\ ~applied') => lastIndex' > lastIndex

\* C30: the loop of extractIssuesFromText ends on every text: each iteration
\* consumes at least one character, and there are no more iterations than the
\* text has markers
LoopConsumesAndEnds ==
    /\ [][consumes]_vars
    /\ [](Len(outReview.issues) <= markersIn(probe.text))
    /\ <>applied

\* the loop has ended after two iterations on a text of three markers, with the
\* findings extractIssuesFromText returns
LoopEndedAfterTwoMatches ==
    /\ probe.fn = "loop" /\ applied
    /\ markersIn(probe.text) = 3
    /\ Len(outReview.issues) = 2
    /\ outReview.issues = extractIssuesFromText(probe.text).issues

====
